---- MODULE Spec2Model ----
(***************************************************************************)
(* A model of the scene manager of the Credenza OpenGL project             *)
(* (Source/SceneManager.cpp, SceneManager.h, MainCode.cpp): the list of    *)
(* mesh instances, the texture and material registries, the shading        *)
(* pipeline of a render pass, model import and the JSON scene serializer.  *)
(*                                                                         *)
(* Conventions.  A std::string that the code searches with find() is a     *)
(* sequence of one-character strings; a string the code only compares is   *)
(* a TLA+ string.  A float is an integer number of hundredths (0.2f is 20).*)
(* A std::function is a record: fn names the call the closure makes, geom  *)
(* the geometry its captured handles refer to; fn = "" is the empty        *)
(* std::function.                                                          *)
(***************************************************************************)
EXTENDS Integers, Sequences, FiniteSets, TLC

\* --------------------------------------------------------------------------
\* Bounds of the model
\* --------------------------------------------------------------------------
MaxMeshes == 2
MaxTagLen == 32
MaxTexCalls == 18
MaxFrames == 2
MaxLeaks == 1
MaxSaves == 1

\* --------------------------------------------------------------------------
\* Strings that the code searches: sequences of characters
\* --------------------------------------------------------------------------
sStanfordBunny == <<"S","t","a","n","f","o","r","d"," ","B","u","n","n","y">>
sLucy == <<"L","u","c","y">>
sSuzanne == <<"S","u","z","a","n","n","e">>
sTeapot == <<"T","e","a","p","o","t">>
sBox == <<"b","o","x">>
sCone == <<"c","o","n","e">>
sCylinder == <<"c","y","l","i","n","d","e","r">>
sTaperedCylinder == <<"t","a","p","e","r","e","d"," ">> \o sCylinder
sPlane == <<"p","l","a","n","e">>
sPrism == <<"p","r","i","s","m">>
sPyramid3 == <<"p","y","r","a","m","i","d","3">>
sPyramid4 == <<"p","y","r","a","m","i","d","4">>
sSphere == <<"s","p","h","e","r","e">>
sTorus == <<"t","o","r","u","s">>
sWidget == <<"w","i","d","g","e","t">>
sSpace == <<" ">>

\* std::string::find(needle) != std::string::npos
Contains(hay, needle) ==
  \E i \in 0..(Len(hay) - Len(needle)) : SubSeq(hay, i + 1, i + Len(needle)) = needle

Digit(d) == <<"0","1","2","3","4","5","6","7","8","9">>[d + 1]

RECURSIVE to_string(_)
\* std::to_string(unsigned): the decimal digits of n
to_string(n) == IF n < 10 THEN <<Digit(n)>> ELSE to_string(n \div 10) \o <<Digit(n % 10)>>

\* --------------------------------------------------------------------------
\* Vectors and the MESH_OBJECT record
\* --------------------------------------------------------------------------
vec2(x, y) == [x |-> x, y |-> y]
vec3(x, y, z) == [x |-> x, y |-> y, z |-> z]
vec4(r, g, b, a) == [r |-> r, g |-> g, b |-> b, a |-> a]

\* the empty std::function<void()>
NoDraw == [fn |-> "", geom |-> <<>>]
\* [this]() { m_basicMeshes->Draw<Shape>Mesh(); }
BasicDraw(name) == [fn |-> name, geom |-> <<>>]
\* [VAO, indices]() { glBindVertexArray(VAO); glDrawElements(...); }
ImportedDraw(file, meshIndex) == [fn |-> "glDrawElements", geom |-> <<file, meshIndex>>]

HasDraw(mesh) == mesh.drawFunction.fn # ""

\* --------------------------------------------------------------------------
\* State
\* --------------------------------------------------------------------------
VARIABLES
  m_meshes,          \* std::vector<MESH_OBJECT>
  isRotating,        \* SceneManager::isRotating, the scene-wide flag
  m_loadedTextures,  \* number of registered textures
  m_textureIDs,      \* TEXTURE_INFO m_textureIDs[16], indexed 0..15
  m_objectMaterials, \* std::vector<OBJECT_MATERIAL>
  gl,                \* texture objects, 2D binding, decode buffers, unit bindings
  shader,            \* the uniforms of the shader backend
  pushes,            \* uniform pushes and draws of the last render pass
  files,             \* scene files on disk
  assets,            \* model asset files on disk
  prepared,          \* PrepareScene has run
  frames,            \* render passes made with the rotation toggle on
  lastCall,          \* the last operation called, its arguments and result
  thrown,            \* the exception that left the last call, "" when it returned
  main               \* main(): position, curMeshIndex, managers, ImGui

vars == <<m_meshes, isRotating, m_loadedTextures, m_textureIDs, m_objectMaterials,
          gl, shader, pushes, files, assets, prepared, frames, lastCall, thrown, main>>

Call(op, file, index, ret) == [op |-> op, file |-> file, index |-> index, ret |-> ret]

\* main() before the first test of its frame loop: the managers are alive,
\* ImGui is initialized, nothing is selected. getMesh holds the index and the
\* list length of the GetMesh call of the current iteration, removed the
\* selection and the list lengths around its RemoveMesh call; both are empty
\* when the call was not made
MainEntry ==
  [pc |-> "test", curMeshIndex |-> -1, getMesh |-> <<>>, removed |-> <<>>,
   managers |-> {"scene", "view", "shader"}, imgui |-> "initialized"]

\* --------------------------------------------------------------------------
\* Texture registry (CreateGLTexture, BindGLTextures, FindTextureSlot)
\* --------------------------------------------------------------------------
\* TEXTURE_INFO m_textureIDs[16]
TextureSlots == 16
SlotIndexes == 0..(TextureSlots - 1)
\* the texture units glActiveTexture(GL_TEXTURE0 + i) can select
TextureUnits == 0..31

\* what the memory of the scene manager may hold where the constructor sets
\* nothing: m_loadedTextures (count) and the ID of every m_textureIDs entry (id),
\* on a zeroed heap block and on a stale one
UninitializedHeaps == {[count |-> 0, id |-> 0], [count |-> 1, id |-> 77]}
IndeterminateIDs == {h.id : h \in UninitializedHeaps}

\* what stbi_load finds in a file: no image, or an image with that many channels
DecodeOutcomes == {"null", "1", "3", "4"}

\* the registry and the GL state a texture load works on
TexState(n, ids, mats, g) == [n |-> n, ids |-> ids, mats |-> mats, gl |-> g]

\* m_textureIDs[m_loadedTextures] = {textureID, tag}: inside the array it sets
\* the entry; outside it the write lands past the array, where the object holds
\* m_objectMaterials next (clobber) or on memory the model does not hold.
RegisterTexture(st, name, tag, clobber) ==
  IF st.n \in SlotIndexes
    THEN [st EXCEPT !.ids[st.n] = [tag |-> tag, ID |-> name]]
    ELSE IF clobber THEN [st EXCEPT !.mats = <<>>] ELSE st

\* CreateGLTexture(filename, tag), with the decode outcome of the file
CreateGLTexture(st, outcome, tag, clobber) ==
  IF outcome = "null"
    THEN [st |-> st, ret |-> FALSE]
    ELSE
      LET name == st.gl.nextName
          gen == [st EXCEPT !.gl.textures = @ \cup {name},
                            !.gl.nextName = @ + 1,
                            !.gl.bound2D = name,
                            !.gl.images = @ + 1]
      IN IF outcome \notin {"3", "4"}
           THEN [st |-> gen, ret |-> FALSE]
           ELSE
             LET up == [gen EXCEPT !.gl.uploaded = @ \cup {name},
                                   !.gl.images = @ - 1,
                                   !.gl.bound2D = 0]
                 reg == RegisterTexture(up, name, tag, clobber)
             IN [st |-> [reg EXCEPT !.n = @ + 1], ret |-> TRUE]

\* m_textureIDs[i].ID as BindGLTextures reads it; past the array the value is
\* whatever lies there
IDAt(ids, i, stray) == IF i \in SlotIndexes THEN ids[i].ID ELSE stray

\* BindGLTextures(): unit i gets the texture of entry i, for i < m_loadedTextures
BindGLTextures(st, stray) ==
  [st EXCEPT !.gl.units = [u \in TextureUnits |->
                             IF u < st.n THEN IDAt(st.ids, u, stray) ELSE @[u]]]

\* m_textureIDs[index].tag.compare(tag) == 0; past the array the outcome is
\* whatever the memory there makes it
TagMatches(ids, index, tag, strayMatch) ==
  IF index \in SlotIndexes THEN ids[index].tag = tag ELSE strayMatch

\* FindTextureSlot(tag): the first index below m_loadedTextures whose tag
\* compares equal, or -1
FindTextureSlot(n, ids, tag, strayMatch) ==
  LET hits == {i \in 0..(n - 1) : TagMatches(ids, i, tag, strayMatch)}
  IN IF hits = {} THEN -1 ELSE CHOOSE i \in hits : \A j \in hits : i <= j

\* --------------------------------------------------------------------------
\* Material registry (DefineObjectMaterials, FindMaterial)
\* --------------------------------------------------------------------------
Material(tag, ambientColor, ambientStrength, diffuseColor, specularColor, shininess) ==
  [ambientStrength |-> ambientStrength, ambientColor |-> ambientColor,
   diffuseColor |-> diffuseColor, specularColor |-> specularColor,
   shininess |-> shininess, tag |-> tag]

\* the materials DefineObjectMaterials appends, in order (values in hundredths)
DefinedMaterials ==
  << Material("default", vec3(30, 30, 30), 40, vec3(50, 50, 50), vec3(20, 20, 20), 1600),
     Material("metal", vec3(20, 20, 20), 30, vec3(20, 20, 20), vec3(50, 50, 50), 2200),
     Material("wood", vec3(10, 10, 10), 20, vec3(30, 30, 30), vec3(30, 30, 30), 2200),
     Material("picture frame", vec3(10, 10, 10), 50, vec3(30, 30, 30), vec3(10, 10, 1), 8000),
     Material("woodNoShine", vec3(10, 10, 10), 20, vec3(30, 30, 30), vec3(30, 30, 30), 30),
     Material("wall", vec3(20, 20, 20), 20, vec3(50, 50, 50), vec3(1, 1, 1), 300),
     Material("glass", vec3(40, 40, 40), 30, vec3(30, 30, 30), vec3(10, 10, 1), 1200) >>

DefineObjectMaterials(mats) == mats \o DefinedMaterials

\* what the uninitialized local OBJECT_MATERIAL of SetShaderMaterial may hold
IndeterminateMaterials ==
  { Material("", vec3(0, 0, 0), 0, vec3(0, 0, 0), vec3(0, 0, 0), 0),
    Material("", vec3(-7, 3, 900), -5, vec3(1, -1, 2), vec3(4, 4, -4), 12345) }

\* the value FindMaterial returns once its scan has ended
FindMaterialResult(bFound) == TRUE

\* FindMaterial(tag, material): ret is the returned bool, material the
\* out-parameter after the call
FindMaterial(mats, tag, material) ==
  IF Len(mats) = 0
    THEN [ret |-> FALSE, material |-> material]
    ELSE
      LET hits == {i \in 1..Len(mats) : mats[i].tag = tag}
          bFound == hits # {}
          first == CHOOSE i \in hits : \A j \in hits : i <= j
      IN [ret |-> FindMaterialResult(bFound),
          material |-> IF bFound
                         THEN [material EXCEPT !.ambientColor = mats[first].ambientColor,
                                               !.ambientStrength = mats[first].ambientStrength,
                                               !.diffuseColor = mats[first].diffuseColor,
                                               !.specularColor = mats[first].specularColor,
                                               !.shininess = mats[first].shininess]
                         ELSE material]

\* --------------------------------------------------------------------------
\* Shader backend: the uniforms, and the log of what a render pass pushes
\* --------------------------------------------------------------------------
MaterialUniforms ==
  {"material.ambientColor", "material.ambientStrength", "material.diffuseColor",
   "material.specularColor", "material.shininess"}

\* a shading context: the uniform values and the pushes made so far
Ctx(sh, log) == [shader |-> sh, pushes |-> log]

\* m_pShaderManager->set<Type>Value(name, value)
SetValue(ctx, name, value) ==
  [shader |-> [u \in DOMAIN ctx.shader \cup {name} |->
                 IF u = name THEN value ELSE ctx.shader[u]],
   pushes |-> Append(ctx.pushes, [name |-> name, value |-> value])]

\* the draw call a draw function issues
Draw(ctx, drawFunction) ==
  [ctx EXCEPT !.pushes = Append(@, [name |-> "draw", value |-> drawFunction])]

\* sin of an angle in hundredths of a degree, in hundredths (Bhaskara's
\* rational approximation, exact at the quarter turns); cos(a) is Sin(a + 9000)
Sin(a) ==
  LET x == ((a % 36000) % 18000) \div 10
      v == (400 * x * (1800 - x)) \div (4050000 - x * (1800 - x))
  IN IF a % 36000 < 18000 THEN v ELSE 0 - v

\* glm::rotate(glm::radians(a), axis) applied to the point p
Rotate(m, a, p) ==
  LET c == Sin(a + 9000)
      s == Sin(a)
  IN CASE m = "rotateX" -> vec3(p.x, (p.y * c - p.z * s) \div 100, (p.y * s + p.z * c) \div 100)
       [] m = "rotateY" -> vec3((p.x * c + p.z * s) \div 100, p.y, (p.z * c - p.x * s) \div 100)
       [] m = "rotateZ" -> vec3((p.x * c - p.y * s) \div 100, (p.x * s + p.y * c) \div 100, p.z)

\* the product of the factors applied to the point p: the rightmost factor
\* acts first
RECURSIVE MapPoint(_, _)
MapPoint(matrix, p) ==
  IF matrix = <<>>
    THEN p
    ELSE LET f == Head(matrix)
             q == MapPoint(Tail(matrix), p)
         IN CASE f.m = "translate" -> vec3(q.x + f.v.x, q.y + f.v.y, q.z + f.v.z)
              [] f.m = "scale" ->
                   vec3((q.x * f.v.x) \div 100, (q.y * f.v.y) \div 100, (q.z * f.v.z) \div 100)
              [] OTHER -> Rotate(f.m, f.v, q)

\* a mutation of ModelMatrix: the factors in the opposite order
ModelMatrixScaleOutermost(scaleXYZ, rx, ry, rz, positionXYZ) ==
  << [m |-> "scale", v |-> scaleXYZ],
     [m |-> "rotateZ", v |-> rz],
     [m |-> "rotateY", v |-> ry],
     [m |-> "rotateX", v |-> rx],
     [m |-> "translate", v |-> positionXYZ] >>

\* glm::translate(p) * rotate(x) * rotate(y) * rotate(z) * glm::scale(s), as the
\* ordered list of its factors
ModelMatrix(scaleXYZ, rx, ry, rz, positionXYZ) ==
  << [m |-> "translate", v |-> positionXYZ],
     [m |-> "rotateX", v |-> rx],
     [m |-> "rotateY", v |-> ry],
     [m |-> "rotateZ", v |-> rz],
     [m |-> "scale", v |-> scaleXYZ] >>

SetTransformations(ctx, scaleXYZ, rx, ry, rz, positionXYZ) ==
  SetValue(ctx, "model", ModelMatrix(scaleXYZ, rx, ry, rz, positionXYZ))

SetShaderColor(ctx, r, g, b, a) ==
  SetValue(SetValue(ctx, "bUseTexture", 0), "objectColor", vec4(r, g, b, a))

SetShaderTexture(ctx, n, ids, textureTag) ==
  SetValue(SetValue(ctx, "bUseTexture", 1),
           "objectTexture", FindTextureSlot(n, ids, textureTag, FALSE))

SetTextureUVScale(ctx, u, v) == SetValue(ctx, "UVscale", vec2(u, v))

\* SetShaderMaterial(materialTag); local is the content of its local variable
\* before FindMaterial is called
SetShaderMaterial(ctx, mats, materialTag, local) ==
  IF Len(mats) > 0
    THEN
      LET found == FindMaterial(mats, materialTag, local)
          material == found.material
      IN IF found.ret
           THEN SetValue(SetValue(SetValue(SetValue(SetValue(ctx,
                  "material.ambientColor", material.ambientColor),
                  "material.ambientStrength", material.ambientStrength),
                  "material.diffuseColor", material.diffuseColor),
                  "material.specularColor", material.specularColor),
                  "material.shininess", material.shininess)
           ELSE ctx
    ELSE ctx

\* a mutation of AddMeshToScene: the new instance goes to the front
AddMeshToSceneFront(meshes, tag, position, rotation, scale, materialTag, textureTag, uvScale, shaderColor, drawFunction) ==
  <<[tag |-> tag, rotation |-> rotation, position |-> position, scale |-> scale,
     materialTag |-> materialTag, textureTag |-> textureTag, uvScale |-> uvScale,
     shaderColor |-> shaderColor, drawFunction |-> drawFunction,
     isRotating |-> FALSE]>> \o meshes

\* --------------------------------------------------------------------------
\* Scene graph: AddMeshToScene, the Add<Shape> operations, RemoveMesh
\* --------------------------------------------------------------------------
\* AddMeshToScene(...): a MESH_OBJECT with the given fields, isRotating left
\* at its default member initializer, pushed at the back
AddMeshToScene(meshes, tag, position, rotation, scale, materialTag, textureTag, uvScale, shaderColor, drawFunction) ==
  Append(meshes,
         [tag |-> tag, rotation |-> rotation, position |-> position, scale |-> scale,
          materialTag |-> materialTag, textureTag |-> textureTag, uvScale |-> uvScale,
          shaderColor |-> shaderColor, drawFunction |-> drawFunction,
          isRotating |-> FALSE])

\* the arguments every Add<Shape> passes besides the tag and the draw function
AddDefault(meshes, tag, drawFunction) ==
  AddMeshToScene(meshes, tag, vec3(0, 0, 0), vec3(0, 0, 0), vec3(100, 100, 100),
                 "", "", vec2(100, 100), vec4(100, 100, 100, 100), drawFunction)

AddBox(meshes) == AddDefault(meshes, sBox, BasicDraw("DrawBoxMesh"))
AddCone(meshes) == AddDefault(meshes, sCone, BasicDraw("DrawConeMesh"))
AddCylinder(meshes) == AddDefault(meshes, sCylinder, BasicDraw("DrawCylinderMesh"))
AddPlane(meshes) == AddDefault(meshes, sPlane, BasicDraw("DrawPlaneMesh"))
AddPrism(meshes) == AddDefault(meshes, sPrism, BasicDraw("DrawPrismMesh"))
AddPyramid3(meshes) == AddDefault(meshes, sPyramid3, BasicDraw("DrawPyramid3Mesh"))
AddPyramid4(meshes) == AddDefault(meshes, sPyramid4, BasicDraw("DrawPyramid4Mesh"))
AddSphere(meshes) == AddDefault(meshes, sSphere, BasicDraw("DrawSphereMesh"))
AddTaperedCylinder(meshes) ==
  AddDefault(meshes, sTaperedCylinder, BasicDraw("DrawTaperedCylinderMesh"))
AddTorus(meshes) == AddDefault(meshes, sTorus, BasicDraw("DrawTorusMesh"))

\* m_meshes.erase(m_meshes.begin() + index)
Erase(meshes, index) ==
  SubSeq(meshes, 1, index) \o SubSeq(meshes, index + 2, Len(meshes))

\* a guard that lets no removal at index 0 through
RemoveGuardFromOne(meshes, index) == index > 0 /\ index < Len(meshes)

\* the guard of RemoveMesh
RemoveGuard(meshes, index) == index >= 0 /\ index < Len(meshes)

\* RemoveMesh(index)
RemoveMeshOp(meshes, index) ==
  IF RemoveGuard(meshes, index) THEN Erase(meshes, index) ELSE meshes

\* --------------------------------------------------------------------------
\* Render pass over the instance list (RenderMeshes)
\* --------------------------------------------------------------------------
\* mesh.rotation.y += 0.2f
RotationStep == 20
\* if (mesh.rotation.y > 360.0f) mesh.rotation.y -= 360.0f
FullTurn == 36000

\* the condition of the rotation toggle in RenderMeshes: the flag of the scene
\* manager
RotationToggle(sceneFlag, mesh) == sceneFlag

\* a rotation that is never taken back a full turn
RotateMeshNoWrap(mesh, sceneFlag) ==
  IF RotationToggle(sceneFlag, mesh)
    THEN [mesh EXCEPT !.rotation.y = @ + RotationStep]
    ELSE mesh

RotateMesh(mesh, sceneFlag) ==
  IF RotationToggle(sceneFlag, mesh)
    THEN LET y == mesh.rotation.y + RotationStep
         IN [mesh EXCEPT !.rotation.y = IF y > FullTurn THEN y - FullTurn ELSE y]
    ELSE mesh

\* a mutation of ShadeAndDraw: the shader color is pushed before the texture
ShadeAndDrawColorFirst(ctx, mesh, n, ids, mats, local) ==
  LET c1 == SetTransformations(ctx, mesh.scale, mesh.rotation.x, mesh.rotation.y,
                               mesh.rotation.z, mesh.position)
      c2 == SetShaderMaterial(c1, mats, mesh.materialTag, local)
      c3 == SetShaderColor(c2, mesh.shaderColor.r, mesh.shaderColor.g,
                           mesh.shaderColor.b, mesh.shaderColor.a)
      c4 == SetShaderTexture(c3, n, ids, mesh.textureTag)
      c5 == SetTextureUVScale(c4, mesh.uvScale.x, mesh.uvScale.y)
  IN IF HasDraw(mesh) THEN Draw(c5, mesh.drawFunction) ELSE c5

\* the body of the loop of RenderMeshes for one mesh, already rotated
ShadeAndDraw(ctx, mesh, n, ids, mats, local) ==
  LET c1 == SetTransformations(ctx, mesh.scale, mesh.rotation.x, mesh.rotation.y,
                               mesh.rotation.z, mesh.position)
      c2 == SetShaderMaterial(c1, mats, mesh.materialTag, local)
      c3 == SetShaderTexture(c2, n, ids, mesh.textureTag)
      c4 == SetTextureUVScale(c3, mesh.uvScale.x, mesh.uvScale.y)
      c5 == SetShaderColor(c4, mesh.shaderColor.r, mesh.shaderColor.g,
                           mesh.shaderColor.b, mesh.shaderColor.a)
  IN IF HasDraw(mesh) THEN Draw(c5, mesh.drawFunction) ELSE c5

RECURSIVE RenderFrom(_, _, _, _, _, _, _, _)
\* the loop of RenderMeshes from mesh i on; locals[i] is what the local
\* material of the i-th SetShaderMaterial call holds on entry
RenderFrom(meshes, i, ctx, sceneFlag, n, ids, mats, locals) ==
  IF i > Len(meshes)
    THEN [meshes |-> meshes, ctx |-> ctx]
    ELSE LET mesh == RotateMesh(meshes[i], sceneFlag)
         IN RenderFrom([meshes EXCEPT ![i] = mesh], i + 1,
                       ShadeAndDraw(ctx, mesh, n, ids, mats, locals[i]),
                       sceneFlag, n, ids, mats, locals)

RenderMeshesOp(meshes, sh, sceneFlag, n, ids, mats, locals) ==
  RenderFrom(meshes, 1, Ctx(sh, <<>>), sceneFlag, n, ids, mats, locals)

\* the fixed environment draws of RenderScene, in the order RenderScene calls
\* them: the calls each function makes, in order, with their arguments
\* (floats in hundredths, rounded; the part selection flags of the cylinder
\* draws are left out)
EnvironmentDraws ==
  << [fn |-> "RenderBackdrop", call |-> "SetShaderMaterial", arg |-> "wall"],
     [fn |-> "RenderBackdrop", call |-> "SetTextureUVScale", arg |-> vec2(600, 500)],
     [fn |-> "RenderBackdrop", call |-> "SetTransformations", arg |-> [scale |-> vec3(2000, 100, 700), rotation |-> vec3(9000, 0, 0), position |-> vec3(0, 500, 330)]],
     [fn |-> "RenderBackdrop", call |-> "SetShaderColor", arg |-> vec4(60, 60, 60, 100)],
     [fn |-> "RenderBackdrop", call |-> "SetShaderTexture", arg |-> "backdrop"],
     [fn |-> "RenderBackdrop", call |-> "draw", arg |-> BasicDraw("DrawPlaneMesh")],
     [fn |-> "RenderFloor", call |-> "SetShaderMaterial", arg |-> "wood"],
     [fn |-> "RenderFloor", call |-> "SetTextureUVScale", arg |-> vec2(500, 1000)],
     [fn |-> "RenderFloor", call |-> "SetTransformations", arg |-> [scale |-> vec3(1000, 100, 2000), rotation |-> vec3(0, 9000, 0), position |-> vec3(0, 0, 1000)]],
     [fn |-> "RenderFloor", call |-> "SetShaderTexture", arg |-> "floor"],
     [fn |-> "RenderFloor", call |-> "draw", arg |-> BasicDraw("DrawPlaneMesh")],
     [fn |-> "RenderPictureFrame", call |-> "SetShaderMaterial", arg |-> "picture frame"],
     [fn |-> "RenderPictureFrame", call |-> "SetTextureUVScale", arg |-> vec2(100, 100)],
     [fn |-> "RenderPictureFrame", call |-> "SetTransformations", arg |-> [scale |-> vec3(300, 100, 500), rotation |-> vec3(0, 9000, 9000), position |-> vec3(0, 750, 335)]],
     [fn |-> "RenderPictureFrame", call |-> "SetShaderTexture", arg |-> "picture frame"],
     [fn |-> "RenderPictureFrame", call |-> "draw", arg |-> BasicDraw("DrawPlaneMesh")],
     [fn |-> "RenderVase", call |-> "SetShaderMaterial", arg |-> "glass"],
     [fn |-> "RenderVase", call |-> "SetTextureUVScale", arg |-> vec2(200, 200)],
     [fn |-> "RenderVase", call |-> "SetTransformations", arg |-> [scale |-> vec3(60, 100, 60), rotation |-> vec3(0, 0, 18000), position |-> vec3(0, 530, 500)]],
     [fn |-> "RenderVase", call |-> "SetShaderTexture", arg |-> "vase"],
     [fn |-> "RenderVase", call |-> "draw", arg |-> BasicDraw("DrawTaperedCylinderMesh")],
     [fn |-> "RenderVaseBase", call |-> "SetShaderMaterial", arg |-> "metal"],
     [fn |-> "RenderVaseBase", call |-> "SetTextureUVScale", arg |-> vec2(100, 100)],
     [fn |-> "RenderVaseBase", call |-> "SetTransformations", arg |-> [scale |-> vec3(50, 10, 50), rotation |-> vec3(0, 0, 0), position |-> vec3(0, 400, 500)]],
     [fn |-> "RenderVaseBase", call |-> "SetShaderTexture", arg |-> "stainless"],
     [fn |-> "RenderVaseBase", call |-> "draw", arg |-> BasicDraw("DrawCylinderMesh")],
     [fn |-> "RenderVaseBase", call |-> "SetTransformations", arg |-> [scale |-> vec3(40, 10, 40), rotation |-> vec3(0, 0, 0), position |-> vec3(0, 410, 500)]],
     [fn |-> "RenderVaseBase", call |-> "SetShaderTexture", arg |-> "stainless"],
     [fn |-> "RenderVaseBase", call |-> "draw", arg |-> BasicDraw("DrawCylinderMesh")],
     [fn |-> "RenderVaseBase", call |-> "SetTransformations", arg |-> [scale |-> vec3(30, 10, 30), rotation |-> vec3(0, 0, 0), position |-> vec3(0, 420, 500)]],
     [fn |-> "RenderVaseBase", call |-> "SetShaderTexture", arg |-> "stainless"],
     [fn |-> "RenderVaseBase", call |-> "draw", arg |-> BasicDraw("DrawCylinderMesh")],
     [fn |-> "RenderCandleHolders", call |-> "SetTextureUVScale", arg |-> vec2(250, 200)],
     [fn |-> "RenderCandleHolders", call |-> "SetTransformations", arg |-> [scale |-> vec3(40, 80, 40), rotation |-> vec3(0, 0, 0), position |-> vec3(150, 401, 500)]],
     [fn |-> "RenderCandleHolders", call |-> "SetShaderMaterial", arg |-> "glass"],
     [fn |-> "RenderCandleHolders", call |-> "SetShaderTexture", arg |-> "candle holders"],
     [fn |-> "RenderCandleHolders", call |-> "draw", arg |-> BasicDraw("DrawCylinderMesh")],
     [fn |-> "RenderCandleHolders", call |-> "SetTransformations", arg |-> [scale |-> vec3(40, 80, 40), rotation |-> vec3(0, 0, 0), position |-> vec3(-150, 401, 500)]],
     [fn |-> "RenderCandleHolders", call |-> "SetShaderColor", arg |-> vec4(100, 100, 100, 50)],
     [fn |-> "RenderCandleHolders", call |-> "SetShaderMaterial", arg |-> "glass"],
     [fn |-> "RenderCandleHolders", call |-> "SetShaderTexture", arg |-> "candle holders"],
     [fn |-> "RenderCandleHolders", call |-> "draw", arg |-> BasicDraw("DrawCylinderMesh")],
     [fn |-> "RenderCandles", call |-> "SetTextureUVScale", arg |-> vec2(250, 200)],
     [fn |-> "RenderCandles", call |-> "SetTransformations", arg |-> [scale |-> vec3(20, 60, 20), rotation |-> vec3(0, 0, 0), position |-> vec3(150, 400, 500)]],
     [fn |-> "RenderCandles", call |-> "SetShaderColor", arg |-> vec4(95, 89, 76, 100)],
     [fn |-> "RenderCandles", call |-> "draw", arg |-> BasicDraw("DrawCylinderMesh")],
     [fn |-> "RenderCandles", call |-> "SetTransformations", arg |-> [scale |-> vec3(20, 60, 20), rotation |-> vec3(0, 0, 0), position |-> vec3(-150, 400, 500)]],
     [fn |-> "RenderCandles", call |-> "SetShaderColor", arg |-> vec4(95, 89, 76, 100)],
     [fn |-> "RenderCandles", call |-> "draw", arg |-> BasicDraw("DrawCylinderMesh")],
     [fn |-> "RenderCandleWicks", call |-> "SetTextureUVScale", arg |-> vec2(250, 200)],
     [fn |-> "RenderCandleWicks", call |-> "SetTransformations", arg |-> [scale |-> vec3(0, 10, 0), rotation |-> vec3(0, 0, 0), position |-> vec3(150, 455, 500)]],
     [fn |-> "RenderCandleWicks", call |-> "SetShaderMaterial", arg |-> "metal"],
     [fn |-> "RenderCandleWicks", call |-> "SetShaderColor", arg |-> vec4(0, 0, 0, 100)],
     [fn |-> "RenderCandleWicks", call |-> "draw", arg |-> BasicDraw("DrawCylinderMesh")],
     [fn |-> "RenderCandleWicks", call |-> "SetTransformations", arg |-> [scale |-> vec3(0, 10, 0), rotation |-> vec3(0, 0, 0), position |-> vec3(-150, 455, 500)]],
     [fn |-> "RenderCandleWicks", call |-> "SetShaderMaterial", arg |-> "metal"],
     [fn |-> "RenderCandleWicks", call |-> "SetShaderColor", arg |-> vec4(0, 0, 0, 100)],
     [fn |-> "RenderCandleWicks", call |-> "draw", arg |-> BasicDraw("DrawCylinderMesh")],
     [fn |-> "RenderCredenza", call |-> "SetShaderMaterial", arg |-> "woodNoShine"],
     [fn |-> "RenderCredenza", call |-> "SetTextureUVScale", arg |-> vec2(100, 100)],
     [fn |-> "RenderCredenza", call |-> "SetTransformations", arg |-> [scale |-> vec3(400, 400, 300), rotation |-> vec3(0, 0, 0), position |-> vec3(0, 200, 500)]],
     [fn |-> "RenderCredenza", call |-> "SetShaderColor", arg |-> vec4(96, 96, 86, 100)],
     [fn |-> "RenderCredenza", call |-> "SetShaderTexture", arg |-> "credenza"],
     [fn |-> "RenderCredenza", call |-> "draw", arg |-> BasicDraw("DrawBoxMesh")],
     [fn |-> "RenderCredenza", call |-> "SetTransformations", arg |-> [scale |-> vec3(100, 400, 260), rotation |-> vec3(0, 0, 0), position |-> vec3(-250, 200, 480)]],
     [fn |-> "RenderCredenza", call |-> "SetShaderColor", arg |-> vec4(96, 96, 86, 100)],
     [fn |-> "RenderCredenza", call |-> "SetShaderTexture", arg |-> "credenza"],
     [fn |-> "RenderCredenza", call |-> "draw", arg |-> BasicDraw("DrawBoxMesh")],
     [fn |-> "RenderCredenza", call |-> "SetTransformations", arg |-> [scale |-> vec3(100, 400, 260), rotation |-> vec3(0, 0, 0), position |-> vec3(250, 200, 480)]],
     [fn |-> "RenderCredenza", call |-> "SetShaderColor", arg |-> vec4(96, 96, 86, 100)],
     [fn |-> "RenderCredenza", call |-> "SetShaderTexture", arg |-> "credenza"],
     [fn |-> "RenderCredenza", call |-> "draw", arg |-> BasicDraw("DrawBoxMesh")],
     [fn |-> "RenderNegativeSpace", call |-> "SetTransformations", arg |-> [scale |-> vec3(360, 60, 300), rotation |-> vec3(0, 0, 0), position |-> vec3(0, 350, 505)]],
     [fn |-> "RenderNegativeSpace", call |-> "SetShaderColor", arg |-> vec4(0, 0, 0, 100)],
     [fn |-> "RenderNegativeSpace", call |-> "draw", arg |-> BasicDraw("DrawBoxMesh")],
     [fn |-> "RenderNegativeSpace", call |-> "SetTransformations", arg |-> [scale |-> vec3(360, 280, 300), rotation |-> vec3(0, 0, 0), position |-> vec3(0, 165, 505)]],
     [fn |-> "RenderNegativeSpace", call |-> "SetShaderColor", arg |-> vec4(0, 0, 0, 100)],
     [fn |-> "RenderNegativeSpace", call |-> "draw", arg |-> BasicDraw("DrawBoxMesh")],
     [fn |-> "RenderNegativeSpace", call |-> "SetTransformations", arg |-> [scale |-> vec3(70, 60, 260), rotation |-> vec3(0, 0, 0), position |-> vec3(-250, 350, 485)]],
     [fn |-> "RenderNegativeSpace", call |-> "SetShaderColor", arg |-> vec4(0, 0, 0, 100)],
     [fn |-> "RenderNegativeSpace", call |-> "draw", arg |-> BasicDraw("DrawBoxMesh")],
     [fn |-> "RenderNegativeSpace", call |-> "SetTransformations", arg |-> [scale |-> vec3(70, 290, 260), rotation |-> vec3(0, 0, 0), position |-> vec3(-250, 160, 485)]],
     [fn |-> "RenderNegativeSpace", call |-> "SetShaderColor", arg |-> vec4(0, 0, 0, 100)],
     [fn |-> "RenderNegativeSpace", call |-> "draw", arg |-> BasicDraw("DrawBoxMesh")],
     [fn |-> "RenderNegativeSpace", call |-> "SetTransformations", arg |-> [scale |-> vec3(70, 60, 260), rotation |-> vec3(0, 0, 0), position |-> vec3(250, 350, 485)]],
     [fn |-> "RenderNegativeSpace", call |-> "SetShaderColor", arg |-> vec4(0, 0, 0, 100)],
     [fn |-> "RenderNegativeSpace", call |-> "draw", arg |-> BasicDraw("DrawBoxMesh")],
     [fn |-> "RenderNegativeSpace", call |-> "SetTransformations", arg |-> [scale |-> vec3(70, 290, 260), rotation |-> vec3(0, 0, 0), position |-> vec3(250, 160, 485)]],
     [fn |-> "RenderNegativeSpace", call |-> "SetShaderColor", arg |-> vec4(0, 0, 0, 100)],
     [fn |-> "RenderNegativeSpace", call |-> "draw", arg |-> BasicDraw("DrawBoxMesh")],
     [fn |-> "RenderDrawers", call |-> "SetShaderMaterial", arg |-> "wood"],
     [fn |-> "RenderDrawers", call |-> "SetTextureUVScale", arg |-> vec2(400, 100)],
     [fn |-> "RenderDrawers", call |-> "SetTransformations", arg |-> [scale |-> vec3(352, 52, 300), rotation |-> vec3(0, 0, 0), position |-> vec3(0, 351, 506)]],
     [fn |-> "RenderDrawers", call |-> "SetShaderColor", arg |-> vec4(96, 96, 86, 100)],
     [fn |-> "RenderDrawers", call |-> "SetShaderTexture", arg |-> "doors"],
     [fn |-> "RenderDrawers", call |-> "draw", arg |-> BasicDraw("DrawBoxMesh")],
     [fn |-> "RenderDrawers", call |-> "SetTransformations", arg |-> [scale |-> vec3(62, 55, 260), rotation |-> vec3(0, 0, 0), position |-> vec3(-247, 350, 490)]],
     [fn |-> "RenderDrawers", call |-> "SetShaderColor", arg |-> vec4(96, 96, 86, 100)],
     [fn |-> "RenderDrawers", call |-> "SetShaderTexture", arg |-> "doors"],
     [fn |-> "RenderDrawers", call |-> "draw", arg |-> BasicDraw("DrawBoxMesh")],
     [fn |-> "RenderDrawers", call |-> "SetTransformations", arg |-> [scale |-> vec3(62, 55, 260), rotation |-> vec3(0, 0, 0), position |-> vec3(247, 350, 490)]],
     [fn |-> "RenderDrawers", call |-> "SetShaderColor", arg |-> vec4(96, 96, 86, 100)],
     [fn |-> "RenderDrawers", call |-> "SetShaderTexture", arg |-> "doors"],
     [fn |-> "RenderDrawers", call |-> "draw", arg |-> BasicDraw("DrawBoxMesh")],
     [fn |-> "RenderDoors", call |-> "SetShaderMaterial", arg |-> "wood"],
     [fn |-> "RenderDoors", call |-> "SetTextureUVScale", arg |-> vec2(100, 100)],
     [fn |-> "RenderDoors", call |-> "SetTransformations", arg |-> [scale |-> vec3(175, 274, 300), rotation |-> vec3(0, 0, 0), position |-> vec3(-89, 166, 506)]],
     [fn |-> "RenderDoors", call |-> "SetShaderTexture", arg |-> "doors"],
     [fn |-> "RenderDoors", call |-> "draw", arg |-> BasicDraw("DrawBoxMesh")],
     [fn |-> "RenderDoors", call |-> "SetTransformations", arg |-> [scale |-> vec3(175, 274, 300), rotation |-> vec3(0, 0, 0), position |-> vec3(89, 166, 506)]],
     [fn |-> "RenderDoors", call |-> "SetShaderTexture", arg |-> "doors"],
     [fn |-> "RenderDoors", call |-> "draw", arg |-> BasicDraw("DrawBoxMesh")],
     [fn |-> "RenderDoors", call |-> "SetTransformations", arg |-> [scale |-> vec3(65, 280, 260), rotation |-> vec3(0, 0, 0), position |-> vec3(-248, 162, 486)]],
     [fn |-> "RenderDoors", call |-> "SetShaderTexture", arg |-> "doors"],
     [fn |-> "RenderDoors", call |-> "draw", arg |-> BasicDraw("DrawBoxMesh")],
     [fn |-> "RenderDoors", call |-> "SetTransformations", arg |-> [scale |-> vec3(65, 280, 260), rotation |-> vec3(0, 0, 0), position |-> vec3(248, 162, 486)]],
     [fn |-> "RenderDoors", call |-> "SetShaderTexture", arg |-> "doors"],
     [fn |-> "RenderDoors", call |-> "draw", arg |-> BasicDraw("DrawBoxMesh")],
     [fn |-> "RenderKnobs", call |-> "SetShaderMaterial", arg |-> "metal"],
     [fn |-> "RenderKnobs", call |-> "SetTextureUVScale", arg |-> vec2(100, 100)],
     [fn |-> "RenderKnobs", call |-> "SetTextureUVScale", arg |-> vec2(100, 100)],
     [fn |-> "RenderKnobs", call |-> "SetTransformations", arg |-> [scale |-> vec3(8, 8, 8), rotation |-> vec3(9000, 0, 0), position |-> vec3(225, 162, 615)]],
     [fn |-> "RenderKnobs", call |-> "SetShaderTexture", arg |-> "knobs"],
     [fn |-> "RenderKnobs", call |-> "draw", arg |-> BasicDraw("DrawCylinderMesh")],
     [fn |-> "RenderKnobs", call |-> "SetTransformations", arg |-> [scale |-> vec3(8, 8, 8), rotation |-> vec3(9000, 0, 0), position |-> vec3(247, 350, 615)]],
     [fn |-> "RenderKnobs", call |-> "SetShaderTexture", arg |-> "knobs"],
     [fn |-> "RenderKnobs", call |-> "draw", arg |-> BasicDraw("DrawCylinderMesh")],
     [fn |-> "RenderKnobs", call |-> "SetTransformations", arg |-> [scale |-> vec3(8, 8, 8), rotation |-> vec3(9000, 0, 0), position |-> vec3(-225, 162, 615)]],
     [fn |-> "RenderKnobs", call |-> "SetShaderTexture", arg |-> "knobs"],
     [fn |-> "RenderKnobs", call |-> "draw", arg |-> BasicDraw("DrawCylinderMesh")],
     [fn |-> "RenderKnobs", call |-> "SetTransformations", arg |-> [scale |-> vec3(8, 8, 8), rotation |-> vec3(9000, 0, 0), position |-> vec3(-247, 350, 615)]],
     [fn |-> "RenderKnobs", call |-> "SetShaderTexture", arg |-> "knobs"],
     [fn |-> "RenderKnobs", call |-> "draw", arg |-> BasicDraw("DrawCylinderMesh")],
     [fn |-> "RenderKnobs", call |-> "SetTransformations", arg |-> [scale |-> vec3(8, 8, 8), rotation |-> vec3(9000, 0, 0), position |-> vec3(20, 165, 650)]],
     [fn |-> "RenderKnobs", call |-> "SetShaderTexture", arg |-> "knobs"],
     [fn |-> "RenderKnobs", call |-> "draw", arg |-> BasicDraw("DrawCylinderMesh")],
     [fn |-> "RenderKnobs", call |-> "SetTransformations", arg |-> [scale |-> vec3(8, 8, 8), rotation |-> vec3(9000, 0, 0), position |-> vec3(-20, 165, 650)]],
     [fn |-> "RenderKnobs", call |-> "SetShaderTexture", arg |-> "knobs"],
     [fn |-> "RenderKnobs", call |-> "draw", arg |-> BasicDraw("DrawCylinderMesh")],
     [fn |-> "RenderKnobs", call |-> "SetTransformations", arg |-> [scale |-> vec3(8, 8, 8), rotation |-> vec3(9000, 0, 0), position |-> vec3(0, 350, 650)]],
     [fn |-> "RenderKnobs", call |-> "SetShaderTexture", arg |-> "knobs"],
     [fn |-> "RenderKnobs", call |-> "draw", arg |-> BasicDraw("DrawCylinderMesh")] >>

\* a mutation of EnvironmentPushes: the later calls come first
RECURSIVE EnvironmentPushesBackwards(_, _, _, _, _, _)
EnvironmentPushesBackwards(lo, hi, n, ids, mats, local) ==
  IF lo < hi
    THEN LET mid == (lo + hi) \div 2
         IN EnvironmentPushesBackwards(mid + 1, hi, n, ids, mats, local)
              \o EnvironmentPushesBackwards(lo, mid, n, ids, mats, local)
    ELSE LET call == EnvironmentDraws[lo].call
             arg == EnvironmentDraws[lo].arg
             ctx == Ctx(<<>>, <<>>)
             after ==
               CASE call = "SetShaderMaterial" -> SetShaderMaterial(ctx, mats, arg, local)
                 [] call = "SetTextureUVScale" -> SetTextureUVScale(ctx, arg.x, arg.y)
                 [] call = "SetTransformations" ->
                      SetTransformations(ctx, arg.scale, arg.rotation.x, arg.rotation.y,
                                         arg.rotation.z, arg.position)
                 [] call = "SetShaderColor" ->
                      SetShaderColor(ctx, arg.r, arg.g, arg.b, arg.a)
                 [] call = "SetShaderTexture" -> SetShaderTexture(ctx, n, ids, arg)
                 [] call = "draw" -> Draw(ctx, arg)
         IN after.pushes

\* the pushes and draw calls that calls lo..hi of the environment functions
\* make, in order; local is what the local material of SetShaderMaterial holds
\* on entry
RECURSIVE EnvironmentPushes(_, _, _, _, _, _)
EnvironmentPushes(lo, hi, n, ids, mats, local) ==
  IF lo < hi
    THEN LET mid == (lo + hi) \div 2
         IN EnvironmentPushes(lo, mid, n, ids, mats, local)
              \o EnvironmentPushes(mid + 1, hi, n, ids, mats, local)
    ELSE LET call == EnvironmentDraws[lo].call
             arg == EnvironmentDraws[lo].arg
             ctx == Ctx(<<>>, <<>>)
             after ==
               CASE call = "SetShaderMaterial" -> SetShaderMaterial(ctx, mats, arg, local)
                 [] call = "SetTextureUVScale" -> SetTextureUVScale(ctx, arg.x, arg.y)
                 [] call = "SetTransformations" ->
                      SetTransformations(ctx, arg.scale, arg.rotation.x, arg.rotation.y,
                                         arg.rotation.z, arg.position)
                 [] call = "SetShaderColor" ->
                      SetShaderColor(ctx, arg.r, arg.g, arg.b, arg.a)
                 [] call = "SetShaderTexture" -> SetShaderTexture(ctx, n, ids, arg)
                 [] call = "draw" -> Draw(ctx, arg)
         IN after.pushes

\* the uniforms of the shader after the pushes of the log
Replay(sh, log) ==
  LET uniforms == {log[k].name : k \in {j \in 1..Len(log) : log[j].name # "draw"}}
  IN [u \in DOMAIN sh \cup uniforms |->
        LET pushed == {k \in 1..Len(log) : log[k].name = u}
        IN IF pushed = {}
             THEN sh[u]
             ELSE log[CHOOSE k \in pushed : \A j \in pushed : j <= k].value]

\* --------------------------------------------------------------------------
\* Model import (LoadModel, ProcessNode, ProcessMesh)
\* --------------------------------------------------------------------------
\* the values LoadModel passes on besides the file name and the tag
Params(position, rotation, scale, materialTag, textureTag, uvScale, shaderColor, rot) ==
  [position |-> position, rotation |-> rotation, scale |-> scale,
   materialTag |-> materialTag, textureTag |-> textureTag, uvScale |-> uvScale,
   shaderColor |-> shaderColor, isRotating |-> rot]

\* an aiNode: the scene mesh indexes it refers to, and its children
Node(mMeshes, mChildren) == [mMeshes |-> mMeshes, mChildren |-> mChildren]

\* an import that leaves isRotating at its default
ProcessMeshDefaultFlag(meshes, filename, meshIndex, tag, p) ==
  AddMeshToScene(meshes, tag, p.position, p.rotation, p.scale, p.materialTag,
                 p.textureTag, p.uvScale, p.shaderColor, ImportedDraw(filename, meshIndex))

\* ProcessMesh: upload the mesh, add an instance that draws it, set its flag
ProcessMesh(meshes, filename, meshIndex, tag, p) ==
  LET added == AddMeshToScene(meshes, tag, p.position, p.rotation, p.scale,
                              p.materialTag, p.textureTag, p.uvScale, p.shaderColor,
                              ImportedDraw(filename, meshIndex))
  IN [added EXCEPT ![Len(added)].isRotating = p.isRotating]

\* the tag ProcessNode gives the i-th mesh of a node
MeshTag(tag, i) == tag \o to_string(i)

RECURSIVE ProcessNode(_, _, _, _, _)
RECURSIVE ProcessNodeMeshes(_, _, _, _, _, _)
RECURSIVE ProcessNodeChildren(_, _, _, _, _, _)

\* for (i = 0; i < node->mNumMeshes; i++) ProcessMesh(..., tag + to_string(i), ...)
ProcessNodeMeshes(meshes, node, i, filename, tag, p) ==
  IF i >= Len(node.mMeshes)
    THEN meshes
    ELSE ProcessNodeMeshes(
           ProcessMesh(meshes, filename, node.mMeshes[i + 1], MeshTag(tag, i), p),
           node, i + 1, filename, tag, p)

\* for (i = 0; i < node->mNumChildren; i++) ProcessNode(node->mChildren[i], ...)
ProcessNodeChildren(meshes, node, i, filename, tag, p) ==
  IF i >= Len(node.mChildren)
    THEN meshes
    ELSE ProcessNodeChildren(
           ProcessNode(meshes, node.mChildren[i + 1], filename, tag, p),
           node, i + 1, filename, tag, p)

ProcessNode(meshes, node, filename, tag, p) ==
  ProcessNodeChildren(ProcessNodeMeshes(meshes, node, 0, filename, tag, p),
                      node, 0, filename, tag, p)

\* LoadModel: asset is what the importer makes of the file
LoadModel(meshes, asset, filename, tag, p) ==
  IF ~asset.ok THEN meshes ELSE ProcessNode(meshes, asset.root, filename, tag, p)

\* --------------------------------------------------------------------------
\* Scene serializer (SerializeSceneData, DeserializeSceneData)
\* --------------------------------------------------------------------------
JsonNull == [type |-> "null", items |-> <<>>]
JsonArray(items) == [type |-> "array", items |-> items]

\* jScene.push_back(jMesh): a null value becomes an array first
JsonPushBack(j, item) == JsonArray(Append(j.items, item))

\* a mutation of JsonMesh: the isRotating flag is not written
JsonMeshNoFlag(mesh) ==
  [tag |-> mesh.tag,
   position |-> <<mesh.position.x, mesh.position.y, mesh.position.z>>,
   rotation |-> <<mesh.rotation.x, mesh.rotation.y, mesh.rotation.z>>,
   scale |-> <<mesh.scale.x, mesh.scale.y, mesh.scale.z>>,
   materialTag |-> mesh.materialTag,
   textureTag |-> mesh.textureTag,
   uvScale |-> <<mesh.uvScale.x, mesh.uvScale.y>>,
   shaderColor |-> <<mesh.shaderColor.r, mesh.shaderColor.g, mesh.shaderColor.b,
                     mesh.shaderColor.a>>]

\* the json object SerializeSceneData builds for one mesh
JsonMesh(mesh) ==
  [tag |-> mesh.tag,
   position |-> <<mesh.position.x, mesh.position.y, mesh.position.z>>,
   rotation |-> <<mesh.rotation.x, mesh.rotation.y, mesh.rotation.z>>,
   scale |-> <<mesh.scale.x, mesh.scale.y, mesh.scale.z>>,
   materialTag |-> mesh.materialTag,
   textureTag |-> mesh.textureTag,
   uvScale |-> <<mesh.uvScale.x, mesh.uvScale.y>>,
   shaderColor |-> <<mesh.shaderColor.r, mesh.shaderColor.g, mesh.shaderColor.b,
                     mesh.shaderColor.a>>,
   isRotating |-> mesh.isRotating]

RECURSIVE SerializeFrom(_, _, _)
SerializeFrom(meshes, i, jScene) ==
  IF i > Len(meshes)
    THEN jScene
    ELSE SerializeFrom(meshes, i + 1, JsonPushBack(jScene, JsonMesh(meshes[i])))

\* the json value SerializeSceneData dumps
SerializeScene(meshes) == SerializeFrom(meshes, 1, JsonNull)

\* a file on disk: whether it can be opened, and the json value its text holds
File(open, json, writes) == [open |-> open, json |-> json, writes |-> writes]
NoFile == File(FALSE, JsonNull, 0)

\* json array element i, counted from 0
At(arr, i) == arr[i + 1]

\* the locals DeserializeSceneData reads from one record
ReadMesh(jMesh) ==
  [tag |-> jMesh.tag,
   position |-> vec3(At(jMesh.position, 0), At(jMesh.position, 1), At(jMesh.position, 2)),
   rotation |-> vec3(At(jMesh.rotation, 0), At(jMesh.rotation, 1), At(jMesh.rotation, 2)),
   scale |-> vec3(At(jMesh.scale, 0), At(jMesh.scale, 1), At(jMesh.scale, 2)),
   materialTag |-> jMesh.materialTag,
   textureTag |-> jMesh.textureTag,
   uvScale |-> vec2(At(jMesh.uvScale, 0), At(jMesh.uvScale, 1)),
   shaderColor |-> vec4(At(jMesh.shaderColor, 0), At(jMesh.shaderColor, 1),
                        At(jMesh.shaderColor, 2), At(jMesh.shaderColor, 3)),
   isRotating |-> jMesh.isRotating]

\* "Handle re-drawing models": the asset file of the first model name the tag
\* contains, "" when it contains none
ModelFileFor(tag) ==
  IF Contains(tag, sStanfordBunny) THEN "../../Models/bunny.obj"
  ELSE IF Contains(tag, sLucy) THEN "../../Models/lucy.obj"
  ELSE IF Contains(tag, sSuzanne) THEN "../../Models/suzanne.obj"
  ELSE IF Contains(tag, sTeapot) THEN "../../Models/teapot.obj"
  ELSE ""

\* a dispatch that looks for "cylinder" before "tapered cylinder"
PrimitiveDrawCylinderFirst(tag) ==
  IF Contains(tag, sBox) THEN BasicDraw("DrawBoxMesh")
  ELSE IF Contains(tag, sCone) THEN BasicDraw("DrawConeMesh")
  ELSE IF Contains(tag, sCylinder) THEN BasicDraw("DrawCylinderMesh")
  ELSE IF Contains(tag, sTaperedCylinder) THEN BasicDraw("DrawTaperedCylinderMesh")
  ELSE IF Contains(tag, sPlane) THEN BasicDraw("DrawPlaneMesh")
  ELSE IF Contains(tag, sPrism) THEN BasicDraw("DrawPrismMesh")
  ELSE IF Contains(tag, sPyramid3) THEN BasicDraw("DrawPyramid3Mesh")
  ELSE IF Contains(tag, sPyramid4) THEN BasicDraw("DrawPyramid4Mesh")
  ELSE IF Contains(tag, sSphere) THEN BasicDraw("DrawSphereMesh")
  ELSE IF Contains(tag, sTorus) THEN BasicDraw("DrawTorusMesh")
  ELSE NoDraw

\* a bare record that leaves isRotating at its default
BareMeshDefaultFlag(r) ==
  [tag |-> r.tag, rotation |-> r.rotation, position |-> r.position, scale |-> r.scale,
   materialTag |-> r.materialTag, textureTag |-> r.textureTag, uvScale |-> r.uvScale,
   shaderColor |-> r.shaderColor, drawFunction |-> NoDraw, isRotating |-> FALSE]

\* "Handle re-drawing basic meshes": the draw function of the first shape name
\* the tag contains, NoDraw when it contains none
PrimitiveDrawFor(tag) ==
  IF Contains(tag, sBox) THEN BasicDraw("DrawBoxMesh")
  ELSE IF Contains(tag, sCone) THEN BasicDraw("DrawConeMesh")
  ELSE IF Contains(tag, sTaperedCylinder) THEN BasicDraw("DrawTaperedCylinderMesh")
  ELSE IF Contains(tag, sCylinder) THEN BasicDraw("DrawCylinderMesh")
  ELSE IF Contains(tag, sPlane) THEN BasicDraw("DrawPlaneMesh")
  ELSE IF Contains(tag, sPrism) THEN BasicDraw("DrawPrismMesh")
  ELSE IF Contains(tag, sPyramid3) THEN BasicDraw("DrawPyramid3Mesh")
  ELSE IF Contains(tag, sPyramid4) THEN BasicDraw("DrawPyramid4Mesh")
  ELSE IF Contains(tag, sSphere) THEN BasicDraw("DrawSphereMesh")
  ELSE IF Contains(tag, sTorus) THEN BasicDraw("DrawTorusMesh")
  ELSE NoDraw

\* a bare record that is tagged the way ProcessNode tags the meshes of a model
BareMeshRetagged(r) ==
  [tag |-> MeshTag(r.tag, 0), rotation |-> r.rotation, position |-> r.position,
   scale |-> r.scale, materialTag |-> r.materialTag, textureTag |-> r.textureTag,
   uvScale |-> r.uvScale, shaderColor |-> r.shaderColor, drawFunction |-> NoDraw,
   isRotating |-> r.isRotating]

\* the MESH_OBJECT mesh DeserializeSceneData fills for a record that names
\* no model: a default-constructed drawFunction and the nine fields read
BareMesh(r) ==
  [tag |-> r.tag, rotation |-> r.rotation, position |-> r.position, scale |-> r.scale,
   materialTag |-> r.materialTag, textureTag |-> r.textureTag, uvScale |-> r.uvScale,
   shaderColor |-> r.shaderColor, drawFunction |-> NoDraw, isRotating |-> r.isRotating]

\* one iteration of the loop of DeserializeSceneData
DeserializeRecord(meshes, jMesh, assetFiles) ==
  LET r == ReadMesh(jMesh)
      model == ModelFileFor(r.tag)
      draw == PrimitiveDrawFor(r.tag)
  IN IF model # ""
       THEN LoadModel(meshes, assetFiles[model], model, r.tag,
                      Params(r.position, r.rotation, r.scale, r.materialTag,
                             r.textureTag, r.uvScale, r.shaderColor, r.isRotating))
       ELSE IF draw # NoDraw
         THEN AddMeshToScene(meshes, r.tag, r.position, r.rotation, r.scale,
                             r.materialTag, r.textureTag, r.uvScale, r.shaderColor, draw)
         ELSE Append(meshes, BareMesh(r))

\* the nine reads of a record succeed: a missing key reads as null, and the
\* conversion of null to std::string, float or bool throws json::type_error
Readable(jMesh) ==
  {"tag", "position", "rotation", "scale", "materialTag", "textureTag", "uvScale",
   "shaderColor", "isRotating"} \subseteq DOMAIN jMesh

\* the loop of DeserializeSceneData from record i on; the exception of a
\* record that cannot be read leaves the loop with the list as rebuilt so far
RECURSIVE DeserializeFrom(_, _, _, _)
DeserializeFrom(meshes, items, i, assetFiles) ==
  IF i > Len(items) \/ ~Readable(items[i])
    THEN meshes
    ELSE DeserializeFrom(DeserializeRecord(meshes, items[i], assetFiles),
                         items, i + 1, assetFiles)

\* a loader that clears the list before it tries to open the file
DeserializeSceneClearFirst(meshes, file, assetFiles) ==
  IF ~file.open
    THEN <<>>
    ELSE DeserializeFrom(<<>>, file.json.items, 1, assetFiles)

\* a loader that does not clear the list before it rebuilds
DeserializeSceneNoClear(meshes, file, assetFiles) ==
  IF ~file.open
    THEN meshes
    ELSE DeserializeFrom(meshes, file.json.items, 1, assetFiles)

\* the list DeserializeSceneData leaves: untouched when the file cannot be
\* opened or its text cannot be parsed (file >> jScene throws before the list
\* is cleared), else cleared and rebuilt from the records
DeserializeScene(meshes, file, assetFiles) ==
  IF ~file.open \/ file.json.type = "discarded"
    THEN meshes
    ELSE DeserializeFrom(<<>>, file.json.items, 1, assetFiles)

\* the exception that leaves DeserializeSceneData: nothing in it is caught
DeserializeThrows(file) ==
  IF ~file.open
    THEN ""
    ELSE IF file.json.type = "discarded"
      THEN "json::parse_error"
      ELSE IF \E i \in 1..Len(file.json.items) : ~Readable(file.json.items[i])
        THEN "json::type_error"
        ELSE ""

\* --------------------------------------------------------------------------
\* Scene preparation (PrepareScene, LoadSceneTextures, SetupSceneLights)
\* --------------------------------------------------------------------------
\* the CreateGLTexture calls of LoadSceneTextures, in order: file and tag
SceneTextures ==
  << <<"hardwood.jpg", "floor">>,
     <<"gold-seamless-texture.jpg", "knobs">>,
     <<"ornate_wood.png", "doors">>,
     <<"rusticwood.jpg", "credenza">>,
     <<"stucco_wall.jpg", "backdrop">>,
     <<"picture_frame.jpg", "picture frame">>,
     <<"glass_texture1.png", "candle holders">>,
     <<"glass_texture2.png", "vase">>,
     <<"stainless.jpg", "stainless">> >>

TextureFiles == {SceneTextures[i][1] : i \in 1..Len(SceneTextures)}

RECURSIVE LoadTexturesFrom(_, _, _)
LoadTexturesFrom(st, i, decode) ==
  IF i > Len(SceneTextures)
    THEN st
    ELSE LoadTexturesFrom(
           CreateGLTexture(st, decode[SceneTextures[i][1]], SceneTextures[i][2], FALSE).st,
           i + 1, decode)

\* LoadSceneTextures(): the nine loads, then BindGLTextures
LoadSceneTextures(st, decode) == BindGLTextures(LoadTexturesFrom(st, 1, decode), 0)

\* the uniforms SetupSceneLights sets, in order
LightUniforms ==
  << <<"bUseLighting", TRUE>>,
     <<"lightSources[0].position", vec3(-5000, 3000, 0)>>,
     <<"lightSources[0].ambientColor", vec3(10, 10, 1)>>,
     <<"lightSources[0].focalStrength", 1000>>,
     <<"lightSources[0].specularIntensity", 10>>,
     <<"lightSources[1].position", vec3(0, 800, 1500)>>,
     <<"lightSources[1].ambientColor", vec3(10, 10, 1)>>,
     <<"lightSources[1].diffuseColor", vec3(50, 50, 50)>>,
     <<"lightSources[1].specularColor", vec3(20, 20, 20)>>,
     <<"lightSources[1].focalStrength", 500>>,
     <<"lightSources[1].specularIntensity", 10>>,
     <<"lightSources[2].position", vec3(5000, 3000, 0)>>,
     <<"lightSources[2].diffuseColor", vec3(50, 50, 50)>>,
     <<"lightSources[2].focalStrength", 1000>>,
     <<"lightSources[2].specularIntensity", 10>> >>

SetupSceneLights(sh) ==
  [u \in DOMAIN sh \cup {LightUniforms[i][1] : i \in 1..Len(LightUniforms)} |->
     IF \E i \in 1..Len(LightUniforms) : LightUniforms[i][1] = u
       THEN LightUniforms[CHOOSE i \in 1..Len(LightUniforms) : LightUniforms[i][1] = u][2]
       ELSE sh[u]]

\* the meshes PrepareScene preloads
BasicMeshes ==
  {"Box", "Cone", "Cylinder", "Plane", "Prism", "Pyramid3", "Pyramid4", "Sphere",
   "TaperedCylinder", "Torus"}

\* PrepareScene(): textures, materials, lights, basic meshes
PrepareSceneOp(st, sh, decode) ==
  LET tex == LoadSceneTextures(st, decode)
  IN [st |-> [tex EXCEPT !.mats = DefineObjectMaterials(@),
                         !.gl.basicMeshes = @ \cup BasicMeshes],
      shader |-> SetupSceneLights(sh)]

\* --------------------------------------------------------------------------
\* Environment: what is on disk
\* --------------------------------------------------------------------------
\* every texture file decodes: a jpg with 3 channels, a png with 4
AllDecode ==
  [f \in TextureFiles |-> IF f \in {"ornate_wood.png", "glass_texture1.png",
                                    "glass_texture2.png"} THEN "4" ELSE "3"]
\* the texture environments of the model
TextureEnvs ==
  {AllDecode, [AllDecode EXCEPT !["hardwood.jpg"] = "null"]}

ModelFiles ==
  {"../../Models/bunny.obj", "../../Models/lucy.obj", "../../Models/suzanne.obj",
   "../../Models/teapot.obj"}

Asset(ok, root) == [ok |-> ok, root |-> root]
\* an asset the importer cannot read; one mesh; two meshes on the root node;
\* one mesh on the root node and one on a child node
AssetShapes ==
  { Asset(FALSE, Node(<<>>, <<>>)),
    Asset(TRUE, Node(<<0>>, <<>>)),
    Asset(TRUE, Node(<<0, 1>>, <<>>)),
    Asset(TRUE, Node(<<0>>, << Node(<<1>>, <<>>) >>)) }
AssetEnvs == {[f \in ModelFiles |-> a] : a \in AssetShapes}

\* the scene files the model saves to and loads from; the second lies in a
\* directory that does not exist, so it can never be opened
ScenePaths == {"scene.json", "nodir/scene.json"}
Writable(path) == path = "scene.json"

\* --------------------------------------------------------------------------
\* Initial state: the scene manager as constructed
\* --------------------------------------------------------------------------
ZeroUniforms ==
  [u \in {"model", "bUseTexture", "objectTexture", "UVscale", "objectColor"}
         \cup MaterialUniforms |->
     CASE u = "model" -> << >>
       [] u \in {"bUseTexture", "objectTexture"} -> 0
       [] u = "UVscale" -> vec2(0, 0)
       [] u = "objectColor" -> vec4(0, 0, 0, 0)
       [] u \in {"material.ambientStrength", "material.shininess"} -> 0
       [] OTHER -> vec3(0, 0, 0)]

NoGL ==
  [textures |-> {}, nextName |-> 1, bound2D |-> 0, images |-> 0, uploaded |-> {},
   units |-> [u \in TextureUnits |-> 0], basicMeshes |-> {}, meshBuffers |-> {}]

Init ==
  /\ m_meshes = << >>
  /\ isRotating = FALSE
  /\ \E heap \in UninitializedHeaps :
       /\ m_loadedTextures = heap.count
       /\ m_textureIDs = [i \in SlotIndexes |-> [tag |-> "", ID |-> heap.id]]
  /\ m_objectMaterials = << >>
  /\ gl = NoGL
  /\ shader = ZeroUniforms
  /\ pushes = << >>
  /\ files = [f \in ScenePaths |-> NoFile]
  /\ assets \in AssetEnvs
  /\ prepared = FALSE
  /\ frames = 0
  /\ lastCall = Call("SceneManager", "", 0, FALSE)
  /\ thrown = ""
  /\ main = MainEntry

\* --------------------------------------------------------------------------
\* Inputs of the operations
\* --------------------------------------------------------------------------
\* the arguments of the model's LoadModel calls
ParamsPlain ==
  Params(vec3(0, 0, 0), vec3(0, 35980, 0), vec3(100, 100, 100), "metal", "floor",
         vec2(100, 100), vec4(100, 100, 100, 100), FALSE)
ParamsTurning ==
  Params(vec3(10, -20, 30), vec3(4500, 35990, -9000), vec3(200, 100, 50), "nonexistent",
         "", vec2(200, 300), vec4(10, 20, 30, 40), TRUE)
\* a quarter turn about Y of an instance stretched along X and moved along X
ParamsQuarter ==
  Params(vec3(500, 0, 0), vec3(0, 9000, 0), vec3(200, 100, 100), "", "",
         vec2(100, 100), vec4(100, 100, 100, 100), FALSE)

LoadParams == {ParamsPlain, ParamsTurning}
LoadTags == {sTeapot, sBox}
LoadFiles == {"../../Models/teapot.obj"}

\* the mesh buffers the instances from position Len(old) + 1 on draw from
NewGeoms(old, new) ==
  {new[i].drawFunction.geom : i \in {j \in (Len(old) + 1)..Len(new) :
                                       new[j].drawFunction.fn = "glDrawElements"}}

\* the tags of the texture loads of the registry specification, by the name
\* glGenTextures hands out
TagOfLoad(name) == SceneTextures[((name - 1) % Len(SceneTextures)) + 1][2]

\* --------------------------------------------------------------------------
\* Actions
\* --------------------------------------------------------------------------
CallPrepareScene ==
  /\ ~prepared
  /\ \E decode \in TextureEnvs :
       LET r == PrepareSceneOp(TexState(m_loadedTextures, m_textureIDs,
                                        m_objectMaterials, gl), shader, decode)
       IN /\ m_loadedTextures' = r.st.n
          /\ m_textureIDs' = r.st.ids
          /\ m_objectMaterials' = r.st.mats
          /\ gl' = r.st.gl
          /\ shader' = r.shader
  /\ prepared' = TRUE
  /\ lastCall' = Call("PrepareScene", "", 0, FALSE)
  /\ UNCHANGED <<thrown, main, m_meshes, isRotating, pushes, files, assets, frames>>

\* an Add<Shape> call: add is the list it leaves
CallAdd(op, added) ==
  /\ prepared
  /\ Len(m_meshes) < MaxMeshes
  /\ m_meshes' = added
  /\ lastCall' = Call(op, "", 0, FALSE)
  /\ UNCHANGED <<thrown, main, isRotating, m_loadedTextures, m_textureIDs, m_objectMaterials, gl,
                 shader, pushes, files, assets, prepared, frames>>

CallAddBox == CallAdd("AddBox", AddBox(m_meshes))
CallAddCone == CallAdd("AddCone", AddCone(m_meshes))
CallAddCylinder == CallAdd("AddCylinder", AddCylinder(m_meshes))
CallAddPlane == CallAdd("AddPlane", AddPlane(m_meshes))
CallAddPrism == CallAdd("AddPrism", AddPrism(m_meshes))
CallAddPyramid3 == CallAdd("AddPyramid3", AddPyramid3(m_meshes))
CallAddPyramid4 == CallAdd("AddPyramid4", AddPyramid4(m_meshes))
CallAddSphere == CallAdd("AddSphere", AddSphere(m_meshes))
CallAddTaperedCylinder == CallAdd("AddTaperedCylinder", AddTaperedCylinder(m_meshes))
CallAddTorus == CallAdd("AddTorus", AddTorus(m_meshes))

\* the argument lists of the direct calls of AddMeshToScene
AddArguments ==
  <<[tag |-> sWidget, p |-> ParamsPlain, drawFunction |-> BasicDraw("DrawSphereMesh")],
    [tag |-> sBox, p |-> ParamsTurning, drawFunction |-> NoDraw],
    [tag |-> sTeapot, p |-> ParamsTurning, drawFunction |-> BasicDraw("DrawBoxMesh")]>>

CallAddMeshToScene ==
  /\ prepared
  /\ Len(m_meshes) < MaxMeshes
  /\ \E i \in 1..Len(AddArguments) :
       LET a == AddArguments[i]
       IN /\ m_meshes' = AddMeshToScene(m_meshes, a.tag, a.p.position, a.p.rotation,
                                        a.p.scale, a.p.materialTag, a.p.textureTag,
                                        a.p.uvScale, a.p.shaderColor, a.drawFunction)
          /\ lastCall' = Call("AddMeshToScene", "", i, FALSE)
  /\ UNCHANGED <<thrown, main, isRotating, m_loadedTextures, m_textureIDs, m_objectMaterials, gl,
                 shader, pushes, files, assets, prepared, frames>>

CallRemoveMesh ==
  /\ prepared
  /\ \E index \in -1..(MaxMeshes + 1) :
       /\ m_meshes' = RemoveMeshOp(m_meshes, index)
       /\ lastCall' = Call("RemoveMesh", "", index, FALSE)
  /\ UNCHANGED <<thrown, main, isRotating, m_loadedTextures, m_textureIDs, m_objectMaterials, gl,
                 shader, pushes, files, assets, prepared, frames>>

\* an import that registers a texture for the model
CallLoadModelRegistering ==
  /\ prepared
  /\ m_loadedTextures < TextureSlots
  /\ Len(m_meshes) < MaxMeshes
  /\ m_loadedTextures' = m_loadedTextures + 1
  /\ m_meshes' = AddBox(m_meshes)
  /\ lastCall' = Call("LoadModel", "", 1, TRUE)
  /\ UNCHANGED <<thrown, main, isRotating, m_textureIDs, m_objectMaterials, gl,
                 shader, pushes, files, assets, prepared, frames>>

CallLoadModel ==
  /\ prepared
  /\ \E filename \in LoadFiles, tag \in LoadTags, p \in LoadParams :
       LET new == LoadModel(m_meshes, assets[filename], filename, tag, p)
       IN /\ Len(new) <= MaxMeshes
          /\ m_meshes' = new
          /\ gl' = [gl EXCEPT !.meshBuffers = @ \cup NewGeoms(m_meshes, new)]
          /\ lastCall' = Call("LoadModel", filename, Len(new) - Len(m_meshes),
                              assets[filename].ok)
  /\ UNCHANGED <<thrown, main, isRotating, m_loadedTextures, m_textureIDs, m_objectMaterials,
                 shader, pushes, files, assets, prepared, frames>>

\* a write of the public member SceneManager::isRotating
SetSceneRotating ==
  /\ prepared
  /\ isRotating' = ~isRotating
  /\ lastCall' = Call("isRotating", "", 0, isRotating')
  /\ UNCHANGED <<thrown, main, m_meshes, m_loadedTextures, m_textureIDs, m_objectMaterials, gl,
                 shader, pushes, files, assets, prepared, frames>>

\* what the local material of each SetShaderMaterial call of a pass may hold on
\* entry; where the tag is found FindMaterial overwrites every field that is
\* pushed, so one value stands for all there
LocalsOf(meshes, mats) ==
  LET unread == CHOOSE m \in IndeterminateMaterials : TRUE
  IN {l \in [1..Len(meshes) -> IndeterminateMaterials] :
        \A i \in 1..Len(meshes) :
          (\E k \in 1..Len(mats) : mats[k].tag = meshes[i].materialTag) => l[i] = unread}

CallRenderMeshes ==
  /\ prepared
  /\ isRotating => frames < MaxFrames
  /\ \E locals \in LocalsOf(m_meshes, m_objectMaterials) :
       LET r == RenderMeshesOp(m_meshes, shader, isRotating, m_loadedTextures,
                               m_textureIDs, m_objectMaterials, locals)
       IN /\ m_meshes' = r.meshes
          /\ shader' = r.ctx.shader
          /\ pushes' = r.ctx.pushes
  /\ frames' = IF isRotating THEN frames + 1 ELSE frames
  /\ lastCall' = Call("RenderMeshes", "", 0, FALSE)
  /\ UNCHANGED <<thrown, main, isRotating, m_loadedTextures, m_textureIDs, m_objectMaterials, gl,
                 files, assets, prepared>>

\* RenderScene(): the environment functions, then RenderMeshes
RenderScenePass ==
  /\ prepared
  /\ isRotating => frames < MaxFrames
  /\ \E locals \in LocalsOf(m_meshes, m_objectMaterials), local \in IndeterminateMaterials :
       LET log == EnvironmentPushes(1, Len(EnvironmentDraws), m_loadedTextures,
                                    m_textureIDs, m_objectMaterials, local)
           env == Ctx(Replay(shader, log), log)
           r == RenderFrom(m_meshes, 1, env, isRotating, m_loadedTextures,
                           m_textureIDs, m_objectMaterials, locals)
       IN /\ m_meshes' = r.meshes
          /\ shader' = r.ctx.shader
          /\ pushes' = r.ctx.pushes
  /\ frames' = IF isRotating THEN frames + 1 ELSE frames
  /\ lastCall' = Call("RenderScene", "", 0, FALSE)
  /\ UNCHANGED <<thrown, isRotating, m_loadedTextures, m_textureIDs, m_objectMaterials, gl,
                 files, assets, prepared>>

\* a call of RenderScene from outside the frame loop
CallRenderScene == RenderScenePass /\ UNCHANGED main

CallSerializeSceneData ==
  /\ prepared
  /\ \E path \in ScenePaths :
       /\ files[path].writes < MaxSaves
       /\ files' = IF Writable(path)
                     THEN [files EXCEPT ![path] = File(TRUE, SerializeScene(m_meshes),
                                                       @.writes + 1)]
                     ELSE files
       /\ lastCall' = Call("SerializeSceneData", path, 0, Writable(path))
  /\ UNCHANGED <<thrown, main, m_meshes, isRotating, m_loadedTextures, m_textureIDs,
                 m_objectMaterials, gl, shader, pushes, assets, prepared, frames>>

CallDeserializeSceneData ==
  /\ prepared
  /\ thrown = ""
  /\ \E path \in ScenePaths :
       LET new == DeserializeScene(m_meshes, files[path], assets)
       IN /\ Len(new) <= MaxMeshes + 1
          /\ \A i \in 1..Len(new) : Len(new[i].tag) <= MaxTagLen
          /\ m_meshes' = new
          /\ gl' = IF files[path].open
                     THEN [gl EXCEPT !.meshBuffers = @ \cup NewGeoms(<<>>, new)]
                     ELSE gl
          /\ lastCall' = Call("DeserializeSceneData", path, 0, files[path].open)
          /\ thrown' = DeserializeThrows(files[path])
  /\ UNCHANGED <<main, isRotating, m_loadedTextures, m_textureIDs, m_objectMaterials,
                 shader, pushes, files, assets, prepared, frames>>

CallCreateGLTexture ==
  /\ ~prepared
  /\ gl.nextName <= MaxTexCalls
  /\ \E outcome \in DecodeOutcomes, clobber \in BOOLEAN :
       LET r == CreateGLTexture(TexState(m_loadedTextures, m_textureIDs,
                                         m_objectMaterials, gl),
                                outcome, TagOfLoad(gl.nextName), clobber)
       IN /\ r.st.gl.images <= MaxLeaks
          /\ m_loadedTextures' = r.st.n
          /\ m_textureIDs' = r.st.ids
          /\ m_objectMaterials' = r.st.mats
          /\ gl' = r.st.gl
          /\ lastCall' = Call("CreateGLTexture", TagOfLoad(gl.nextName), 0, r.ret)
  /\ UNCHANGED <<thrown, main, m_meshes, isRotating, shader, pushes, files, assets, prepared, frames>>

\* the tags the model looks up: the first and the eighth of the scene, and one
\* that no load registers
LookupTags == {"floor", "vase", "missing"}

\* FindTextureSlot(tag): lastCall.index is the slot returned
CallFindTextureSlot ==
  /\ ~prepared
  /\ \E tag \in LookupTags, strayMatch \in BOOLEAN :
       lastCall' = Call("FindTextureSlot", tag,
                        FindTextureSlot(m_loadedTextures, m_textureIDs, tag, strayMatch),
                        FALSE)
  /\ UNCHANGED <<thrown, main, m_meshes, isRotating, m_loadedTextures, m_textureIDs,
                 m_objectMaterials, gl, shader, pushes, files, assets, prepared, frames>>

CallBindGLTextures ==
  /\ ~prepared
  /\ \E stray \in IndeterminateIDs :
       gl' = BindGLTextures(TexState(m_loadedTextures, m_textureIDs,
                                     m_objectMaterials, gl), stray).gl
  /\ lastCall' = Call("BindGLTextures", "", 0, FALSE)
  /\ UNCHANGED <<thrown, main, m_meshes, isRotating, m_loadedTextures, m_textureIDs,
                 m_objectMaterials, shader, pushes, files, assets, prepared, frames>>

\* --------------------------------------------------------------------------
\* Scenes the operations are applied to: lists built with AddMeshToScene and
\* ProcessMesh, in a scene manager that has been constructed and prepared
\* --------------------------------------------------------------------------
\* AddMeshToScene(tag, <the values of p>, drawFunction) on an empty list
Added(tag, p, drawFunction) ==
  AddMeshToScene(<<>>, tag, p.position, p.rotation, p.scale, p.materialTag,
                 p.textureTag, p.uvScale, p.shaderColor, drawFunction)[1]
\* the instance LoadModel(teapot.obj, tag, p) adds for a one-mesh asset
Imported(tag, p) ==
  ProcessMesh(<<>>, "../../Models/teapot.obj", 0, MeshTag(tag, 0), p)[1]

\* all lists of at most n elements of the set
ListsUpTo(elements, n) == UNION {[1..k -> elements] : k \in 0..n}

\* the scene manager after construction on the heap block and PrepareScene
\* with the decode outcomes, holding the list
PreparedWith(heap, decode, scene) ==
  LET r == PrepareSceneOp(
             TexState(heap.count, [i \in SlotIndexes |-> [tag |-> "", ID |-> heap.id]],
                      <<>>, NoGL),
             ZeroUniforms, decode)
  IN /\ m_meshes = scene
     /\ isRotating = FALSE
     /\ m_loadedTextures = r.st.n
     /\ m_textureIDs = r.st.ids
     /\ m_objectMaterials = r.st.mats
     /\ gl = [r.st.gl EXCEPT !.meshBuffers = NewGeoms(<<>>, scene)]
     /\ shader = r.shader
     /\ pushes = << >>
     /\ files = [f \in ScenePaths |-> NoFile]
     /\ prepared = TRUE
     /\ frames = 0
     /\ lastCall = Call("PrepareScene", "", 0, FALSE)
     /\ thrown = ""
     /\ main = MainEntry

\* --------------------------------------------------------------------------
\* Specifications
\* --------------------------------------------------------------------------
\* the scene graph: preparation, adding, removing, importing
Next ==
  \/ CallPrepareScene
  \/ CallAddBox
  \/ CallAddCylinder
  \/ CallRemoveMesh
  \/ CallLoadModel

Spec == Init /\ [][Next]_vars

\* the render pass, on prepared scenes
RenderElements ==
  { Added(sBox, ParamsPlain, BasicDraw("DrawBoxMesh")),
    Added(sCone, ParamsQuarter, BasicDraw("DrawConeMesh")),
    Imported(sTeapot, ParamsTurning),
    BareMesh(Imported(sWidget, ParamsTurning)) }

InitRender ==
  /\ assets \in {e \in AssetEnvs : e["../../Models/teapot.obj"] = Asset(TRUE, Node(<<0>>, <<>>))}
  /\ \E heap \in UninitializedHeaps, decode \in TextureEnvs,
        scene \in ListsUpTo(RenderElements, MaxMeshes) :
       PreparedWith(heap, decode, scene)

NextRender ==
  \/ SetSceneRotating
  \/ CallRenderMeshes

SpecRender == InitRender /\ [][NextRender]_vars

\* the texture registry on its own
NextTex ==
  \/ CallCreateGLTexture
  \/ CallBindGLTextures
  \/ CallFindTextureSlot

SpecTex == Init /\ [][NextTex]_vars

\* saving, loading and rendering, on prepared scenes
PersistElements ==
  { Imported(sBox, ParamsTurning),
    Imported(sTeapot, ParamsPlain),
    Imported(sWidget, ParamsTurning) }

\* assets are the asset files as they are when the scene file is loaded, which
\* may be long after the imports that built the scene
InitPersist ==
  /\ assets \in AssetEnvs
  /\ \E heap \in {h \in UninitializedHeaps : h.count = 0},
        scene \in ListsUpTo(PersistElements, MaxMeshes) :
       PreparedWith(heap, AllDecode, scene)

NextPersist ==
  \/ CallSerializeSceneData
  \/ CallDeserializeSceneData
  \/ CallRenderMeshes

SpecPersist == InitPersist /\ [][NextPersist]_vars

\* the load dispatch, on scenes of one instance whose tag holds one or two of
\* the names the loader looks for, or none
DispatchNames ==
  <<sStanfordBunny, sLucy, sSuzanne, sTeapot, sBox, sCone, sTaperedCylinder, sCylinder,
    sPlane, sPrism, sPyramid3, sPyramid4, sSphere, sTorus>>
DispatchTags ==
  {sWidget}
    \cup {DispatchNames[i] : i \in 1..Len(DispatchNames)}
    \cup {DispatchNames[i] \o sSpace \o DispatchNames[j] :
            i \in 1..Len(DispatchNames), j \in 1..Len(DispatchNames)}
DispatchElements ==
  {Added(tag, ParamsPlain, draw) :
     tag \in {t \in DispatchTags : Len(t) < MaxTagLen},
     draw \in {BasicDraw("DrawTorusMesh")}}

InitDispatch ==
  /\ assets \in {e \in AssetEnvs : e["../../Models/teapot.obj"] = Asset(TRUE, Node(<<0>>, <<>>))}
  /\ \E heap \in {h \in UninitializedHeaps : h.count = 0}, element \in DispatchElements :
       PreparedWith(heap, AllDecode, <<element>>)

NextDispatch ==
  \/ CallSerializeSceneData
  \/ CallDeserializeSceneData

SpecDispatch == InitDispatch /\ [][NextDispatch]_vars

\* the editing operations on a prepared, empty scene
InitAdd ==
  /\ assets \in {e \in AssetEnvs : e["../../Models/teapot.obj"] = Asset(TRUE, Node(<<0>>, <<>>))}
  /\ \E heap \in UninitializedHeaps : PreparedWith(heap, AllDecode, <<>>)

NextAdd ==
  \/ CallAddMeshToScene
  \/ CallAddBox
  \/ CallAddCone
  \/ CallAddCylinder
  \/ CallAddPlane
  \/ CallAddPrism
  \/ CallAddPyramid3
  \/ CallAddPyramid4
  \/ CallAddSphere
  \/ CallAddTaperedCylinder
  \/ CallAddTorus
  \/ CallRemoveMesh

SpecAdd == InitAdd /\ [][NextAdd]_vars

\* the frames of the scene: the environment and the instance list
InitScene ==
  /\ assets \in {e \in AssetEnvs : e["../../Models/teapot.obj"] = Asset(TRUE, Node(<<0>>, <<>>))}
  /\ \E heap \in UninitializedHeaps, decode \in TextureEnvs,
        scene \in ListsUpTo({e \in RenderElements : e.tag = sBox \/ ~HasDraw(e)}, MaxMeshes) :
       PreparedWith(heap, decode, scene)

NextScene ==
  \/ SetSceneRotating
  \/ CallRenderScene

SpecScene == InitScene /\ [][NextScene]_vars

\* loading scene files that were not written by SerializeSceneData: text that
\* is no JSON, and saved scenes in which one record has lost its first or its
\* last field
Without(jMesh, field) == [f \in DOMAIN jMesh \ {field} |-> jMesh[f]]
ForeignFiles ==
  LET saved == {SerializeScene(scene) : scene \in ListsUpTo(PersistElements, MaxMeshes)}
  IN {File(TRUE, [type |-> "discarded", items |-> <<>>], 0)}
       \cup {File(TRUE, j, 0) : j \in saved}
       \cup {File(TRUE, [j EXCEPT !.items[k] = Without(@, f)], 0) :
               j \in saved, k \in 1..MaxMeshes, f \in {"tag", "isRotating"}}

\* a file from elsewhere is put where the scene file is expected
PutSceneFile ==
  /\ thrown = ""
  /\ \E path \in {f \in ScenePaths : Writable(f)}, file \in ForeignFiles :
       /\ ~files[path].open
       /\ files' = [files EXCEPT ![path] = file]
       /\ lastCall' = Call("PutSceneFile", path, 0, FALSE)
  /\ UNCHANGED <<thrown, main, m_meshes, isRotating, m_loadedTextures, m_textureIDs,
                 m_objectMaterials, gl, shader, pushes, assets, prepared, frames>>

InitLoad ==
  /\ assets \in {e \in AssetEnvs : e["../../Models/teapot.obj"] = Asset(TRUE, Node(<<0>>, <<>>))}
  /\ \E heap \in {h \in UninitializedHeaps : h.count = 0},
        scene \in ListsUpTo(PersistElements, MaxMeshes) :
       PreparedWith(heap, AllDecode, scene)

NextLoad ==
  \/ PutSceneFile
  \/ CallDeserializeSceneData

SpecLoad == InitLoad /\ [][NextLoad]_vars

\* --------------------------------------------------------------------------
\* main(): the frame loop, DrawImGui, the cleanup
\* --------------------------------------------------------------------------
\* the Add<Shape> call behind each button of the "Meshes" header
ButtonAdd(meshes, button) ==
  CASE button = "Add Box" -> AddBox(meshes)
    [] button = "Add Cone" -> AddCone(meshes)
    [] button = "Add Cylinder" -> AddCylinder(meshes)
    [] button = "Add Plane" -> AddPlane(meshes)
    [] button = "Add Prism" -> AddPrism(meshes)
    [] button = "Add Pyramid 3" -> AddPyramid3(meshes)
    [] button = "Add Pyramid 4" -> AddPyramid4(meshes)
    [] button = "Add Sphere" -> AddSphere(meshes)
    [] button = "Add Tapered Cylinder" -> AddTaperedCylinder(meshes)
    [] button = "Add Torus" -> AddTorus(meshes)
    [] OTHER -> meshes

\* the button of the header that the user presses in the runs
PressedButtons == {"Add Torus"}

\* the position a drag of the "Position" control leaves
DraggedPosition == vec3(100, 0, 0)

\* a guard that tests the upper end only
SelectionBelowCount(count, index) == index < count

\* curMeshIndex >= 0 && curMeshIndex < g_SceneManager->GetNumMeshes()
SelectionInRange(count, index) == index >= 0 /\ index < count

\* GetMesh(index) and a write of the position through the reference it
\* returns: m_meshes[index] is unchecked, outside the list the write lands
\* nowhere in the list or on any of its elements
GetMeshWrite(meshes, index, position) ==
  IF index >= 0 /\ index < Len(meshes)
    THEN {[meshes EXCEPT ![index + 1].position = position]}
    ELSE {meshes} \cup {[meshes EXCEPT ![k].position = position] : k \in 1..Len(meshes)}

\* std::max(0, curMeshIndex - 1)
MaxOf(a, b) == IF a > b THEN a ELSE b

\* the frame loop passed its test: the scene is rendered
MainRenderScene ==
  /\ main.pc = "render"
  /\ RenderScenePass
  /\ main' = [main EXCEPT !.pc = "ui"]

\* a DrawImGui that does not wait for the render pass
CallDrawImGuiAnytime ==
  /\ main.pc \in {"ui", "render"}
  /\ Len(m_meshes) < MaxMeshes
  /\ m_meshes' = ButtonAdd(m_meshes, "Add Box")
  /\ main' = [main EXCEPT !.getMesh = <<>>, !.removed = <<>>]
  /\ lastCall' = Call("DrawImGui", "Add Box", main.curMeshIndex, FALSE)
  /\ UNCHANGED <<thrown, isRotating, m_loadedTextures, m_textureIDs, m_objectMaterials, gl,
                 shader, pushes, files, assets, prepared, frames>>

\* DrawImGui(): at most one Add button, the selection slider, the controls of
\* the selected instance, the Delete button, in the order of the code
CallDrawImGui ==
  /\ main.pc = "ui"
  /\ \E button \in PressedButtons \cup {""}, drag \in BOOLEAN, delete \in BOOLEAN :
       /\ button # "" => Len(m_meshes) < MaxMeshes
       /\ LET added == ButtonAdd(m_meshes, button)
              shown == Len(added) > 0
          IN \E selected \in {main.curMeshIndex} \cup (IF shown THEN 0..(Len(added) - 1) ELSE {}) :
               LET inRange == shown /\ SelectionInRange(Len(added), selected)
               IN /\ drag => inRange
                  /\ delete => shown
                  /\ \E edited \in (IF drag THEN GetMeshWrite(added, selected, DraggedPosition) ELSE {added}) :
                       LET removed == IF delete THEN RemoveMeshOp(edited, selected) ELSE edited
                       IN /\ m_meshes' = removed
                          /\ main' = [main EXCEPT
                               !.pc = "test",
                               !.curMeshIndex = IF delete THEN MaxOf(0, selected - 1) ELSE selected,
                               !.getMesh = IF inRange THEN <<selected, Len(added)>> ELSE <<>>,
                               !.removed = IF delete
                                             THEN <<selected, Len(edited), Len(removed)>>
                                             ELSE <<>>]
                          /\ lastCall' = Call("DrawImGui", button, selected, delete)
  /\ UNCHANGED <<thrown, isRotating, m_loadedTextures, m_textureIDs, m_objectMaterials, gl,
                 shader, pushes, files, assets, prepared, frames>>

\* glfwPollEvents() and the test of the loop, glfwWindowShouldClose: the
\* iteration is over
PollEvents ==
  /\ main.pc = "test"
  /\ \E close \in BOOLEAN :
       /\ main' = [main EXCEPT !.pc = IF close THEN "cleanup" ELSE "render",
                                !.getMesh = <<>>, !.removed = <<>>]
       /\ lastCall' = Call("glfwWindowShouldClose", "", 0, close)
  /\ UNCHANGED <<thrown, m_meshes, isRotating, m_loadedTextures, m_textureIDs,
                 m_objectMaterials, gl, shader, pushes, files, assets, prepared, frames>>

\* the three managers are deleted
MainCleanup ==
  /\ main.pc = "cleanup"
  /\ main' = [main EXCEPT !.pc = "exit", !.managers = {}]
  /\ lastCall' = Call("delete", "", 0, FALSE)
  /\ UNCHANGED <<thrown, m_meshes, isRotating, m_loadedTextures, m_textureIDs,
                 m_objectMaterials, gl, shader, pushes, files, assets, prepared, frames>>

\* exit(EXIT_SUCCESS): the process terminates; the call of ShutdownImGui that
\* follows it is not reached
MainExit ==
  /\ main.pc = "exit"
  /\ main' = [main EXCEPT !.pc = "exited"]
  /\ lastCall' = Call("exit", "", 0, FALSE)
  /\ UNCHANGED <<thrown, m_meshes, isRotating, m_loadedTextures, m_textureIDs,
                 m_objectMaterials, gl, shader, pushes, files, assets, prepared, frames>>

\* the program from the end of PrepareScene on
InitMain ==
  /\ assets \in {e \in AssetEnvs : e["../../Models/teapot.obj"] = Asset(TRUE, Node(<<0>>, <<>>))}
  /\ \E heap \in {h \in UninitializedHeaps : h.count = 0} : PreparedWith(heap, AllDecode, <<>>)

NextMain ==
  \/ PollEvents
  \/ MainRenderScene
  \/ CallDrawImGui
  \/ MainCleanup
  \/ MainExit

SpecMain == InitMain /\ [][NextMain]_vars

\* a write through the reference GetMesh(index) returns, for an index of the
\* list
CallGetMesh ==
  /\ prepared
  /\ \E index \in 0..(Len(m_meshes) - 1) :
       /\ m_meshes[index + 1].position # DraggedPosition
       /\ m_meshes' \in GetMeshWrite(m_meshes, index, DraggedPosition)
       /\ lastCall' = Call("GetMesh", "", index, FALSE)
  /\ UNCHANGED <<thrown, main, isRotating, m_loadedTextures, m_textureIDs, m_objectMaterials, gl,
                 shader, pushes, files, assets, prepared, frames>>

\* the operations on a prepared scene that change the list, draw it, save it
\* and load it. The runs are kept small: one render pass, removal of the first
\* instance, an edit of the box while it is new and alone, saves to and loads
\* from the file that can be opened, an import into the empty scene
InitFixed ==
  /\ assets \in {e \in AssetEnvs : e["../../Models/teapot.obj"] = Asset(TRUE, Node(<<0>>, <<>>))}
  /\ \E heap \in {h \in UninitializedHeaps : h.count = 0} : PreparedWith(heap, AllDecode, <<>>)

NextFixed ==
  \/ CallRenderMeshes /\ pushes = <<>>
  \/ CallAddBox
  \/ CallRemoveMesh /\ lastCall'.index = 0
  \/ CallGetMesh /\ m_meshes = AddBox(<<>>)
  \/ CallSerializeSceneData /\ lastCall'.file = "scene.json"
  \/ CallDeserializeSceneData /\ lastCall'.ret
  \/ CallLoadModel /\ m_meshes = <<>>

SpecFixed == InitFixed /\ [][NextFixed]_vars

\* --------------------------------------------------------------------------
\* Properties
\* --------------------------------------------------------------------------
\* C6: RemoveMesh(index) with index < 0 or index >= count changes nothing;
\* with 0 <= index < count it removes exactly the instance at that index: the
\* count drops by one, the instances before index keep their positions and
\* every later instance moves down by exactly one position, unchanged.
C6_RemovalBoundsSafety ==
  [][lastCall'.op = "RemoveMesh" =>
       LET index == lastCall'.index
           count == Len(m_meshes)
       IN IF index < 0 \/ index >= count
            THEN m_meshes' = m_meshes
            ELSE /\ Len(m_meshes') = count - 1
                 /\ \A k \in 1..index : m_meshes'[k] = m_meshes[k]
                 /\ \A k \in (index + 1)..(count - 1) : m_meshes'[k] = m_meshes[k + 1]]_vars

\* a removal at index 0 has happened and left the instance that followed
C6_Witness ==
  /\ lastCall.op = "RemoveMesh"
  /\ lastCall.index = 0
  /\ Len(m_meshes) >= 1

\* C7: within one LoadModel call, any two instances generated from different
\* leaf meshes of the asset, on the same node or on different nodes, receive
\* different tags, each the base tag followed by an ordinal.
C7_ImportTagsDistinct ==
  lastCall.op = "LoadModel" =>
    LET count == Len(m_meshes)
        generated == (count - lastCall.index + 1)..count
    IN /\ \A i \in generated :
            \E base \in LoadTags, ordinal \in 0..9 :
              m_meshes[i].tag = base \o to_string(ordinal)
       /\ \A i, j \in generated : i # j => m_meshes[i].tag # m_meshes[j].tag

\* C5: in each render pass, every instance whose own isRotating flag is true
\* has its Y-rotation advanced by the fixed increment of 0.2 degrees (taken
\* back one full turn past 360), whatever the other instances' flags and the
\* scene-wide flag are.
C5_PerInstanceRotation ==
  [][lastCall'.op = "RenderMeshes" =>
       /\ Len(m_meshes') = Len(m_meshes)
       /\ \A i \in 1..Len(m_meshes) :
            m_meshes[i].isRotating =>
              m_meshes'[i].rotation.y \in {m_meshes[i].rotation.y + RotationStep,
                                           m_meshes[i].rotation.y + RotationStep - FullTurn}]_vars

\* C3: a render pass over instances whose materialTag matches no registered
\* material pushes none of the five material uniforms, and the shader's
\* material state stays as the previous draw left it.
C3_MaterialFallback ==
  [][(/\ lastCall'.op = "RenderMeshes"
      /\ \A i \in 1..Len(m_meshes) :
           \A k \in 1..Len(m_objectMaterials) :
             m_objectMaterials[k].tag # m_meshes[i].materialTag)
       => /\ \A k \in 1..Len(pushes') : pushes'[k].name \notin MaterialUniforms
          /\ \A u \in MaterialUniforms : shader'[u] = shader[u]]_vars

\* C4: once 16 textures are registered, a further CreateGLTexture call returns
\* failure, registers nothing and leaves every entry of the registry and the
\* loaded-texture count unchanged; the count never exceeds 16.
C4_TextureCapacity ==
  /\ [](m_loadedTextures <= TextureSlots)
  /\ [][(lastCall'.op = "CreateGLTexture" /\ m_loadedTextures = TextureSlots)
          => /\ lastCall'.ret = FALSE
             /\ m_textureIDs' = m_textureIDs
             /\ m_loadedTextures' = m_loadedTextures]_vars

\* the names the properties speak of
ModelNames == {sStanfordBunny, sLucy, sSuzanne, sTeapot}
PrimitiveNames ==
  {sBox, sCone, sCylinder, sTaperedCylinder, sPlane, sPrism, sPyramid3, sPyramid4,
   sSphere, sTorus}
NamesModel(tag) == \E name \in ModelNames : Contains(tag, name)
NamesPrimitive(tag) == \E name \in PrimitiveNames : Contains(tag, name)

\* the instance holds the nine data fields of the saved record
SameFields(mesh, record) ==
  /\ mesh.tag = record.tag
  /\ <<mesh.position.x, mesh.position.y, mesh.position.z>> = record.position
  /\ <<mesh.rotation.x, mesh.rotation.y, mesh.rotation.z>> = record.rotation
  /\ <<mesh.scale.x, mesh.scale.y, mesh.scale.z>> = record.scale
  /\ mesh.materialTag = record.materialTag
  /\ mesh.textureTag = record.textureTag
  /\ <<mesh.uvScale.x, mesh.uvScale.y>> = record.uvScale
  /\ <<mesh.shaderColor.r, mesh.shaderColor.g, mesh.shaderColor.b, mesh.shaderColor.a>>
       = record.shaderColor
  /\ mesh.isRotating = record.isRotating

\* the last call was a DeserializeSceneData that opened its file; the records
\* of that file, which an earlier SerializeSceneData wrote
Loaded == lastCall.op = "DeserializeSceneData" /\ lastCall.ret
Saved == files[lastCall.file].json.items

\* C1: for a list whose tags each contain a primitive-shape name and no model
\* name, SerializeSceneData followed by DeserializeSceneData of the same file
\* yields a list of the same length and order in which every instance equals
\* the saved one in tag, position, rotation, scale, materialTag, textureTag,
\* uvScale, shaderColor and isRotating.
C1_RoundTripPrimitives ==
  (Loaded /\ \A i \in 1..Len(Saved) :
               NamesPrimitive(Saved[i].tag) /\ ~NamesModel(Saved[i].tag))
    => /\ Len(m_meshes) = Len(Saved)
       /\ \A i \in 1..Len(Saved) : SameFields(m_meshes[i], Saved[i])

\* C2: when every saved record carries a model name and its asset file is
\* loadable, DeserializeSceneData produces exactly one instance per record,
\* with the same tag, transform, material, texture, uvScale, color and
\* isRotating: the instance count and every tag are preserved.
C2_RoundTripModels ==
  (Loaded /\ \A i \in 1..Len(Saved) :
               NamesModel(Saved[i].tag) /\ assets[ModelFileFor(Saved[i].tag)].ok)
    => /\ Len(m_meshes) = Len(Saved)
       /\ \A i \in 1..Len(Saved) : SameFields(m_meshes[i], Saved[i])

\* C10: DeserializeSceneData on a path that cannot be opened returns with the
\* instance list exactly as before the call; the list is not cleared.
C10_LoadFailureKeepsList ==
  [][(lastCall'.op = "DeserializeSceneData" /\ ~files[lastCall'.file].open)
       => m_meshes' = m_meshes]_vars

\* a load from a path that cannot be opened has returned, the list not empty
C10_Witness ==
  /\ lastCall.op = "DeserializeSceneData"
  /\ ~lastCall.ret
  /\ ~files[lastCall.file].open
  /\ Len(m_meshes) >= 1

\* C9: DeserializeSceneData chooses the reconstruction of a record by the
\* first name its tag contains, in the fixed order Stanford Bunny, Lucy,
\* Suzanne, Teapot, box, cone, tapered cylinder, cylinder, plane, prism,
\* pyramid3, pyramid4, sphere, torus: a model name re-imports that model's
\* asset, a shape name gives that shape's draw action whatever the instance
\* drew before, and a tag with none of them gives no draw action.
C9_DispatchPrecedence ==
  (Loaded /\ Len(Saved) = 1) =>
    LET tag == Saved[1].tag
        order == <<sStanfordBunny, sLucy, sSuzanne, sTeapot, sBox, sCone,
                   sTaperedCylinder, sCylinder, sPlane, sPrism, sPyramid3, sPyramid4,
                   sSphere, sTorus>>
        target == <<"../../Models/bunny.obj", "../../Models/lucy.obj",
                    "../../Models/suzanne.obj", "../../Models/teapot.obj",
                    "DrawBoxMesh", "DrawConeMesh", "DrawTaperedCylinderMesh",
                    "DrawCylinderMesh", "DrawPlaneMesh", "DrawPrismMesh",
                    "DrawPyramid3Mesh", "DrawPyramid4Mesh", "DrawSphereMesh",
                    "DrawTorusMesh">>
        found == {i \in 1..Len(order) : Contains(tag, order[i])}
        first == CHOOSE i \in found : \A j \in found : i <= j
    IN IF found = {}
         THEN Len(m_meshes) = 1 /\ ~HasDraw(m_meshes[1])
         ELSE IF first <= 4
           THEN /\ assets[target[first]].ok => Len(m_meshes) >= 1
                /\ \A k \in 1..Len(m_meshes) :
                     /\ m_meshes[k].drawFunction.fn = "glDrawElements"
                     /\ m_meshes[k].drawFunction.geom[1] = target[first]
           ELSE /\ Len(m_meshes) = 1
                /\ m_meshes[1].drawFunction = BasicDraw(target[first])

\* a record whose tag holds "tapered cylinder" in front of a later-listed name
\* has been loaded as a tapered cylinder, the instance having drawn a torus
C9_Witness ==
  /\ Loaded
  /\ Len(Saved) = 1
  /\ Saved[1].tag = sTaperedCylinder \o sSpace \o sTorus
  /\ Len(m_meshes) = 1
  /\ m_meshes[1].drawFunction = BasicDraw("DrawTaperedCylinderMesh")

\* the render pass: the uniform pushes that open each instance's part of the
\* log, the instance a log entry belongs to, whether instance i was drawn
Passes(log) == {k \in 1..Len(log) : log[k].name = "model"}
InstanceOf(log, k) == Cardinality({s \in Passes(log) : s <= k})
Drawn(log, i) == \E k \in 1..Len(log) : log[k].name = "draw" /\ InstanceOf(log, k) = i

\* a render pass goes through every instance and issues no draw call for an
\* instance without a draw action
SkipsBare ==
  lastCall.op = "RenderMeshes" =>
    /\ Cardinality(Passes(pushes)) = Len(m_meshes)
    /\ \A i \in 1..Len(m_meshes) : Drawn(pushes, i) <=> HasDraw(m_meshes[i])

\* C8 as stated: an instance whose tag contains no recognized name reappears
\* after save then load at the same list position with all nine data fields
\* equal and no draw action; every later render pass skips its draw call and
\* completes.
C8_LossyRoundTripSamePosition ==
  /\ Loaded =>
       \A i \in 1..Len(Saved) :
         (~NamesModel(Saved[i].tag) /\ ~NamesPrimitive(Saved[i].tag)) =>
           /\ i <= Len(m_meshes)
           /\ SameFields(m_meshes[i], Saved[i])
           /\ ~HasDraw(m_meshes[i])
  /\ SkipsBare

\* C8, amended: the instance reappears with all nine data fields equal and no
\* draw action, at the same list position whenever no earlier record of the
\* file carries a model name; every later render pass skips its draw call and
\* completes.
C8_LossyRoundTrip ==
  /\ Loaded =>
       \A i \in 1..Len(Saved) :
         (~NamesModel(Saved[i].tag) /\ ~NamesPrimitive(Saved[i].tag)) =>
           \E k \in 1..Len(m_meshes) :
             /\ SameFields(m_meshes[k], Saved[i])
             /\ ~HasDraw(m_meshes[k])
             /\ (\A e \in 1..(i - 1) : ~NamesModel(Saved[e].tag)) => k = i
  /\ SkipsBare

\* a render pass has run over a loaded list that holds, behind another
\* instance, a rotating instance without a draw action
C8_Witness ==
  /\ lastCall.op = "RenderMeshes"
  /\ files["scene.json"].open
  /\ \E k \in 2..Len(m_meshes) :
       /\ ~HasDraw(m_meshes[k])
       /\ m_meshes[k].isRotating
       /\ ~Drawn(pushes, k)
       /\ Drawn(pushes, k - 1)

\* the number of mesh references in the hierarchy below a node, the node included
RECURSIVE LeafCount(_)
RECURSIVE LeafCountFrom(_, _)
LeafCount(node) == Len(node.mMeshes) + LeafCountFrom(node, 1)
LeafCountFrom(node, i) ==
  IF i > Len(node.mChildren)
    THEN 0
    ELSE LeafCount(node.mChildren[i]) + LeafCountFrom(node, i + 1)

\* the number of instances the records from i on stand for: one for a record
\* without a model name, else one per leaf mesh of the model's asset, none
\* when the asset cannot be read
RECURSIVE RebuiltCount(_, _)
RebuiltCount(items, i) ==
  IF i > Len(items)
    THEN 0
    ELSE (IF ~NamesModel(items[i].tag)
            THEN 1
            ELSE IF assets[ModelFileFor(items[i].tag)].ok
                   THEN LeafCount(assets[ModelFileFor(items[i].tag)].root)
                   ELSE 0)
         + RebuiltCount(items, i + 1)

\* the tags of a sequence of instances or records that carry no model name
PlainTags(seq) ==
  LET plain == SelectSeq(seq, LAMBDA e : ~NamesModel(e.tag))
  IN [k \in 1..Len(plain) |-> plain[k].tag]

\* C11: after DeserializeSceneData of a file that opens and parses, no
\* instance that was in the list before the call remains: the list holds what
\* the records stand for and nothing else, and the instances rebuilt from
\* primitive and unrecognized records appear in the same relative order as
\* their records in the file.
C11_LoadReplacesScene ==
  Loaded =>
    /\ Len(m_meshes) = RebuiltCount(Saved, 1)
    /\ PlainTags(m_meshes) = PlainTags(Saved)
    /\ \A k \in 1..Len(m_meshes) :
         NamesModel(m_meshes[k].tag) =>
           \E i \in 1..Len(Saved), ordinal \in 0..9 :
             m_meshes[k].tag = Saved[i].tag \o to_string(ordinal)

\* a file of two records without a model name has been loaded over the list
\* it was saved from, and the list holds the two rebuilt instances only
C11_Witness ==
  /\ Loaded
  /\ Len(Saved) = 2
  /\ PlainTags(Saved) = <<sBox \o <<"0">>, sWidget \o <<"0">> >>
  /\ Len(m_meshes) = 2
  /\ ~HasDraw(m_meshes[2])

\* C12: LoadModel on an asset that fails to parse adds no instance and leaves
\* the list unchanged; on a parsed asset it appends exactly one instance per
\* leaf mesh reference of the node hierarchy, each carrying the passed
\* transform, material, texture, uvScale, color and isRotating values, and
\* leaves all earlier instances unchanged.
C12_ImportAllOrNothing ==
  [][lastCall'.op = "LoadModel" =>
       LET asset == assets[lastCall'.file]
           count == Len(m_meshes)
       IN IF ~asset.ok
            THEN m_meshes' = m_meshes
            ELSE /\ Len(m_meshes') = count + LeafCount(asset.root)
                 /\ SubSeq(m_meshes', 1, count) = m_meshes
                 /\ \E p \in LoadParams :
                      \A k \in (count + 1)..Len(m_meshes') :
                        /\ m_meshes'[k].position = p.position
                        /\ m_meshes'[k].rotation = p.rotation
                        /\ m_meshes'[k].scale = p.scale
                        /\ m_meshes'[k].materialTag = p.materialTag
                        /\ m_meshes'[k].textureTag = p.textureTag
                        /\ m_meshes'[k].uvScale = p.uvScale
                        /\ m_meshes'[k].shaderColor = p.shaderColor
                        /\ m_meshes'[k].isRotating = p.isRotating
                        /\ m_meshes'[k].drawFunction.fn = "glDrawElements"]_vars

\* an import of a two-mesh asset with isRotating set has added two instances
C12_Witness ==
  /\ lastCall.op = "LoadModel"
  /\ lastCall.ret
  /\ lastCall.index = 2
  /\ Len(m_meshes) = 2
  /\ m_meshes[1].isRotating /\ m_meshes[2].isRotating

\* C13: when the image cannot be decoded, or decodes with a channel count
\* other than 3 or 4, CreateGLTexture returns false and leaves the registry
\* entries, the loaded-texture count, the set of allocated GPU texture objects,
\* the current 2D texture binding and the live CPU decode buffers as they were
\* before the call, so that a later successful load takes the next slot.
C13_TextureLoadFailureNoEffect ==
  [][(lastCall'.op = "CreateGLTexture" /\ ~lastCall'.ret)
       => /\ m_textureIDs' = m_textureIDs
          /\ m_loadedTextures' = m_loadedTextures
          /\ gl'.textures = gl.textures
          /\ gl'.bound2D = gl.bound2D
          /\ gl'.images = gl.images]_vars

\* C14: when a render pass applies the rotation increment to an instance, the
\* new Y-rotation is the old value plus 0.2, reduced by 360 if that sum
\* exceeds 360 (359.9 becomes 0.1); a Y-rotation in [0, 360] stays in
\* [0, 360] through every render pass.
C14_RotationWraparound ==
  [][lastCall'.op = "RenderMeshes" =>
       \A i \in 1..Len(m_meshes) :
         LET old == m_meshes[i].rotation.y
             new == m_meshes'[i].rotation.y
         IN /\ new # old =>
                 new = IF old + 20 > 36000 THEN old + 20 - 36000 ELSE old + 20
            /\ (old >= 0 /\ old <= 36000) => (new >= 0 /\ new <= 36000)]_vars

\* passes with the increment applied have taken one instance from 359.9 to
\* 0.1 and another from 359.8 to 360 exactly
C14_Witness ==
  /\ lastCall.op = "RenderMeshes"
  /\ isRotating
  /\ \E i, j \in 1..Len(m_meshes) :
       /\ m_meshes[i].rotation.y = 10
       /\ m_meshes[j].rotation.y = 36000

\* the zero-based registration index of a texture: the number of successful
\* loads before the one that uploaded it
RegistrationIndex(name) == Cardinality({u \in gl.uploaded : u < name})

\* C15: FindTextureSlot(tag) returns the zero-based registration index,
\* counted over successful loads only, of the first registered entry whose
\* tag equals the argument, and -1 when no entry matches; BindGLTextures
\* binds the entry at index i to texture unit i.
C15_TextureSlotLookup ==
  /\ lastCall.op = "FindTextureSlot" =>
       LET hits == {u \in gl.uploaded : TagOfLoad(u) = lastCall.file}
           first == CHOOSE u \in hits : \A v \in hits : u <= v
       IN lastCall.index = IF hits = {} THEN -1 ELSE RegistrationIndex(first)
  /\ lastCall.op = "BindGLTextures" =>
       \A u \in gl.uploaded : gl.units[RegistrationIndex(u)] = u

\* the shape name each Add<Shape> is called after, character by character
ShapeNames ==
  [AddBox |-> <<"b","o","x">>,
   AddCone |-> <<"c","o","n","e">>,
   AddCylinder |-> <<"c","y","l","i","n","d","e","r">>,
   AddPlane |-> <<"p","l","a","n","e">>,
   AddPrism |-> <<"p","r","i","s","m">>,
   AddPyramid3 |-> <<"p","y","r","a","m","i","d","3">>,
   AddPyramid4 |-> <<"p","y","r","a","m","i","d","4">>,
   AddSphere |-> <<"s","p","h","e","r","e">>,
   AddTaperedCylinder |-> <<"t","a","p","e","r","e","d"," ","c","y","l","i","n","d","e","r">>,
   AddTorus |-> <<"t","o","r","u","s">>]

\* C16: AddMeshToScene appends exactly one instance with the given fields and
\* isRotating false: the count grows by one and the existing instances are
\* unchanged.  Each Add<Shape> adds an instance tagged with the shape name, at
\* position (0,0,0), rotation (0,0,0), scale (1,1,1), with empty material and
\* texture tags, uvScale (1,1) and color (1,1,1,1).
C16_AddAppends ==
  [][LET op == lastCall'.op
         count == Len(m_meshes)
         appended == /\ Len(m_meshes') = count + 1
                     /\ SubSeq(m_meshes', 1, count) = m_meshes
                     /\ ~m_meshes'[count + 1].isRotating
         new == m_meshes'[count + 1]
     IN /\ op = "AddMeshToScene" =>
             LET a == AddArguments[lastCall'.index]
             IN /\ appended
                /\ new.tag = a.tag
                /\ new.position = a.p.position
                /\ new.rotation = a.p.rotation
                /\ new.scale = a.p.scale
                /\ new.materialTag = a.p.materialTag
                /\ new.textureTag = a.p.textureTag
                /\ new.uvScale = a.p.uvScale
                /\ new.shaderColor = a.p.shaderColor
                /\ new.drawFunction = a.drawFunction
        /\ op \in DOMAIN ShapeNames =>
             /\ appended
             /\ new.tag = ShapeNames[op]
             /\ new.position = vec3(0, 0, 0)
             /\ new.rotation = vec3(0, 0, 0)
             /\ new.scale = vec3(100, 100, 100)
             /\ new.materialTag = ""
             /\ new.textureTag = ""
             /\ new.uvScale = vec2(100, 100)
             /\ new.shaderColor = vec4(100, 100, 100, 100)
    ]_vars

\* an AddMeshToScene call and an Add<Shape> call have each appended to a
\* non-empty list
C16_Witness ==
  /\ Len(m_meshes) = 2
  /\ lastCall.op = "AddTaperedCylinder"
  /\ m_meshes[1].tag = sTeapot
  /\ m_meshes[2].tag = sTaperedCylinder

\* C17: SerializeSceneData leaves the instance list (and all other state of
\* the scene manager) unchanged, and the file it writes holds exactly one
\* record per instance, in list order, each with exactly the nine fields tag,
\* position, rotation, scale, materialTag, textureTag, uvScale, shaderColor
\* and isRotating at the instance's current values, and no field for the draw
\* action.
C17_SaveIsPureRead ==
  [][lastCall'.op = "SerializeSceneData" =>
       /\ UNCHANGED <<m_meshes, isRotating, m_loadedTextures, m_textureIDs,
                      m_objectMaterials, gl, shader, pushes>>
       /\ lastCall'.ret =>
            LET records == files'[lastCall'.file].json.items
            IN /\ Len(records) = Len(m_meshes)
               /\ \A i \in 1..Len(m_meshes) :
                    /\ DOMAIN records[i] =
                         {"tag", "position", "rotation", "scale", "materialTag",
                          "textureTag", "uvScale", "shaderColor", "isRotating"}
                    /\ SameFields(m_meshes[i], records[i])
    ]_vars

\* a list of two instances with draw actions, one of them rotating, has been
\* written to the file
C17_Witness ==
  /\ lastCall.op = "SerializeSceneData"
  /\ lastCall.ret
  /\ Len(m_meshes) = 2
  /\ Len(files[lastCall.file].json.items) = 2
  /\ HasDraw(m_meshes[1])
  /\ m_meshes[1].isRotating /\ ~m_meshes[2].isRotating

\* C18: the model matrix SetTransformations pushes for an instance is the
\* product Translation x RotationX x RotationY x RotationZ x Scale of the
\* instance's position, rotation angles and scale, in that order, and it maps
\* the origin to the instance's position.
C18_TransformComposition ==
  lastCall.op = "RenderMeshes" =>
    \A k \in Passes(pushes) :
      LET mesh == m_meshes[InstanceOf(pushes, k)]
          matrix == pushes[k].value
      IN /\ matrix = << [m |-> "translate", v |-> mesh.position],
                        [m |-> "rotateX", v |-> mesh.rotation.x],
                        [m |-> "rotateY", v |-> mesh.rotation.y],
                        [m |-> "rotateZ", v |-> mesh.rotation.z],
                        [m |-> "scale", v |-> mesh.scale] >>
         /\ MapPoint(matrix, vec3(0, 0, 0)) = mesh.position

\* the matrix of an instance with scale (2,1,1), rotation (0,90,0) and
\* position (5,0,0) has been pushed, and that of an instance turned about all
\* three axes and moved off every axis
C18_Witness ==
  /\ lastCall.op = "RenderMeshes"
  /\ Len(m_meshes) = 2
  /\ m_meshes[1].scale = vec3(200, 100, 100)
  /\ m_meshes[1].rotation = vec3(0, 9000, 0)
  /\ m_meshes[1].position = vec3(500, 0, 0)
  /\ m_meshes[2].rotation.x = 4500 /\ m_meshes[2].rotation.z = -9000
  /\ m_meshes[2].position = vec3(10, -20, 30)
  /\ Cardinality(Passes(pushes)) = 2

\* the value of the uniform in effect at entry k of the log: that of its last
\* push before k
Uniform(log, k, name) ==
  LET before == {j \in 1..(k - 1) : log[j].name = name}
  IN log[CHOOSE j \in before : \A i \in before : i <= j].value

\* C19: when RenderMeshes invokes an instance's draw action, the use-texture
\* flag is true exactly when the instance's textureTag resolves to a
\* registered texture, and then the sampler holds that texture's slot; for an
\* empty textureTag the flag is false and the instance's shaderColor is the
\* color in effect.
C19_TextureStateAtDraw ==
  lastCall.op = "RenderMeshes" =>
    \A k \in {j \in 1..Len(pushes) : pushes[j].name = "draw"} :
      LET mesh == m_meshes[InstanceOf(pushes, k)]
          slot == FindTextureSlot(m_loadedTextures, m_textureIDs, mesh.textureTag, FALSE)
      IN /\ Uniform(pushes, k, "bUseTexture") = 1 <=> slot # -1
         /\ slot # -1 => Uniform(pushes, k, "objectTexture") = slot
         /\ mesh.textureTag = "" =>
              /\ Uniform(pushes, k, "bUseTexture") = 0
              /\ Uniform(pushes, k, "objectColor") = mesh.shaderColor

\* C20: when SetShaderTexture is called with a tag that is not in the texture
\* registry (its lookup yields -1), the draw that follows runs with the
\* use-texture flag false, never with the flag true and the invalid sampler.
C20_TextureMissUntextured ==
  lastCall.op = "RenderScene" =>
    \A k \in {j \in 1..Len(pushes) : pushes[j].name = "objectTexture" /\ pushes[j].value = -1} :
      LET draws == {d \in (k + 1)..Len(pushes) : pushes[d].name = "draw"}
          following == CHOOSE d \in draws : \A e \in draws : d <= e
      IN draws # {} => Uniform(pushes, following, "bUseTexture") = 0

\* C21: when the file opens but its text cannot be parsed or a record lacks
\* a required field, DeserializeSceneData returns normally (no exception
\* leaves it) and the instance list equals the list before the call.
C21_LoadAtomicOnMalformed ==
  [][(lastCall'.op = "DeserializeSceneData" /\ lastCall'.ret) =>
       LET json == files[lastCall'.file].json
           malformed == \/ json.type = "discarded"
                        \/ \E i \in 1..Len(json.items) : ~Readable(json.items[i])
       IN malformed => thrown' = "" /\ m_meshes' = m_meshes
    ]_vars

\* C22: right after construction the loaded-texture count is 0 and
\* FindTextureSlot returns -1 for every tag, and the first successful
\* CreateGLTexture registers its texture in slot 0.
C22_RegistryStartsEmpty ==
  /\ lastCall.op = "SceneManager" =>
       /\ m_loadedTextures = 0
       /\ \A tag \in LookupTags :
            FindTextureSlot(m_loadedTextures, m_textureIDs, tag, FALSE) = -1
  /\ (lastCall.op = "CreateGLTexture" /\ lastCall.ret /\ Cardinality(gl.uploaded) = 1) =>
       FindTextureSlot(m_loadedTextures, m_textureIDs, lastCall.file, FALSE) = 0

\* C23: a render pass leaves the count, the order and every field of every
\* instance unchanged except the Y-rotation of instances whose own isRotating
\* flag is true; an instance whose flag is false keeps its Y-rotation.
C23_RenderChangesOnlyRotation ==
  [][lastCall'.op = "RenderMeshes" =>
       /\ Len(m_meshes') = Len(m_meshes)
       /\ \A i \in 1..Len(m_meshes) :
            /\ [m_meshes'[i] EXCEPT !.rotation.y = m_meshes[i].rotation.y] = m_meshes[i]
            /\ ~m_meshes[i].isRotating => m_meshes'[i].rotation.y = m_meshes[i].rotation.y
    ]_vars

\* the names of the log entries a pass made for instance i, in order
NamesFor(log, i) ==
  LET mine == {k \in 1..Len(log) : InstanceOf(log, k) = i}
      first == CHOOSE k \in mine : \A j \in mine : k <= j
  IN [k \in 1..Cardinality(mine) |-> log[first + k - 1].name]

\* C24: for each instance a render pass pushes, in this order, the model
\* matrix, the material, the texture flag and slot, the UV scale and the
\* shader color, and only then invokes the draw action; the model matrix is
\* computed from the Y-rotation the instance has after the pass, that is from
\* the advanced value when the pass advanced it.
C24_PipelineOrder ==
  [][lastCall'.op = "RenderMeshes" =>
       \A i \in 1..Len(m_meshes') :
         LET shading == <<"model", "material.ambientColor", "material.ambientStrength",
                          "material.diffuseColor", "material.specularColor",
                          "material.shininess", "bUseTexture", "objectTexture", "UVscale",
                          "bUseTexture", "objectColor">>
             k == CHOOSE j \in Passes(pushes') : InstanceOf(pushes', j) = i
         IN /\ NamesFor(pushes', i) =
                 IF HasDraw(m_meshes'[i]) THEN Append(shading, "draw") ELSE shading
            /\ pushes'[k].value[3] = [m |-> "rotateY", v |-> m_meshes'[i].rotation.y]
            /\ isRotating => m_meshes'[i].rotation.y # m_meshes[i].rotation.y
    ]_vars

\* a pass with the rotation toggle on has advanced and shaded two instances,
\* one with a draw action and one without
C24_Witness ==
  /\ lastCall.op = "RenderMeshes"
  /\ isRotating
  /\ Len(m_meshes) = 2
  /\ HasDraw(m_meshes[1]) /\ ~HasDraw(m_meshes[2])
  /\ Len(pushes) = 23

\* the environment functions in the order the frame is to run them
FrameOrder ==
  <<"RenderBackdrop", "RenderFloor", "RenderPictureFrame", "RenderVase", "RenderVaseBase",
    "RenderCandleHolders", "RenderCandles", "RenderCandleWicks", "RenderCredenza",
    "RenderNegativeSpace", "RenderDrawers", "RenderDoors", "RenderKnobs">>

\* C25: a RenderScene call makes the environment draws function by function
\* in the order backdrop, floor, picture frame, vase, vase base, candle
\* holders, candles, wicks, credenza, negative space, drawers, doors, knobs,
\* and after all of them exactly one pass over the instance list in list
\* order, in which each present draw action is invoked exactly once.
C25_FrameComposition ==
  lastCall.op = "RenderScene" =>
    LET IsDraw(e) == e.name = "draw"
        IsDrawCall(c) == c.call = "draw"
        drawn == SelectSeq(pushes, IsDraw)
        fixed == SelectSeq(EnvironmentDraws, IsDrawCall)
        present == SelectSeq(m_meshes, HasDraw)
        place(fn) == CHOOSE i \in 1..Len(FrameOrder) : FrameOrder[i] = fn
        lastFixed == CHOOSE k \in 1..Len(pushes) :
                       Cardinality({j \in 1..k : pushes[j].name = "draw"}) = Len(fixed)
                         /\ pushes[k].name = "draw"
    IN /\ \A i \in 1..Len(FrameOrder) : \E k \in 1..Len(fixed) : fixed[k].fn = FrameOrder[i]
       /\ \A k \in 1..(Len(fixed) - 1) : place(fixed[k].fn) <= place(fixed[k + 1].fn)
       /\ Len(drawn) = Len(fixed) + Len(present)
       /\ \A k \in 1..Len(fixed) : drawn[k].value = fixed[k].arg
       /\ \A k \in 1..Len(present) : drawn[Len(fixed) + k].value = present[k].drawFunction
       /\ Cardinality({k \in Passes(pushes) : k > lastFixed}) = Len(m_meshes)
       /\ \A k \in Passes(pushes) :
            k > lastFixed =>
              pushes[k].value[1].v =
                m_meshes[Cardinality({j \in Passes(pushes) : j > lastFixed /\ j <= k})].position

\* a frame has drawn the environment and then a list of two instances of
\* which only the second has a draw action
C25_Witness ==
  /\ lastCall.op = "RenderScene"
  /\ Len(m_meshes) = 2
  /\ ~HasDraw(m_meshes[1]) /\ HasDraw(m_meshes[2])
  /\ Len(SelectSeq(pushes, LAMBDA e : e.name = "draw")) = 37

\* C26: in every iteration of the frame loop the pass over the instance list
\* has finished, over the whole list, when the UI handler runs; the length of
\* the list changes only in a step of the UI handler, and a render pass neither
\* adds nor removes an instance.
C26_MutationsBetweenPasses ==
  [][/\ main.pc = "ui" =>
          /\ lastCall.op = "RenderScene"
          /\ Len(SelectSeq(pushes, LAMBDA e : e.name = "draw"))
               = Len(SelectSeq(EnvironmentDraws, LAMBDA c : c.call = "draw"))
                   + Len(SelectSeq(m_meshes, HasDraw))
     /\ Len(m_meshes') # Len(m_meshes) => main.pc = "ui" /\ lastCall'.op = "DrawImGui"
     /\ lastCall'.op = "DrawImGui" => main.pc = "ui" /\ main'.pc = "test"
     /\ lastCall'.op = "RenderScene" =>
          /\ main.pc = "render" /\ main'.pc = "ui"
          /\ Len(m_meshes') = Len(m_meshes)]_vars

\* a UI handler has added one instance and removed another between two passes
C26_Witness ==
  /\ main.pc = "test"
  /\ lastCall.op = "DrawImGui"
  /\ lastCall.file = "Add Torus"
  /\ Len(main.removed) = 3
  /\ main.removed[3] < main.removed[2]
  /\ Len(m_meshes) = 1

\* C28: from the initial selection -1, whatever the user adds, selects and
\* deletes, GetMesh is called only with an index of the list; a Delete with
\* selection -1 removes nothing; and after a Delete that leaves the list
\* non-empty the selection is max(0, previous - 1) and an index of the list.
C28_UiIndexSafety ==
  /\ Len(main.getMesh) = 2 => 0 <= main.getMesh[1] /\ main.getMesh[1] < main.getMesh[2]
  /\ Len(main.removed) = 3 =>
       /\ main.removed[1] = -1 => main.removed[3] = main.removed[2]
       /\ Len(m_meshes) > 0 =>
            /\ main.curMeshIndex = (IF main.removed[1] > 1 THEN main.removed[1] - 1 ELSE 0)
            /\ 0 <= main.curMeshIndex
            /\ main.curMeshIndex < Len(m_meshes)

\* the second of two instances was selected, edited through GetMesh and
\* deleted; the first is selected now
C28_Witness ==
  /\ lastCall.op = "DrawImGui"
  /\ main.getMesh = <<1, 2>>
  /\ main.removed = <<1, 2, 1>>
  /\ main.curMeshIndex = 0
  /\ m_meshes[1].position = DraggedPosition

\* C30: when the process has terminated after the close signal, the scene,
\* view and shader managers have been destroyed and ShutdownImGui has shut the
\* UI library down.
C30_OrderlyShutdown ==
  main.pc = "exited" =>
    /\ main.managers = {}
    /\ main.imgui = "shut down"

\* C27: from the end of PrepareScene on, a render pass, an added primitive, a
\* removal, an edit in place, a save, a load and a model import each leave the
\* material registry as it was, and the tag and the texture of every slot of
\* the texture registry and its count.
C27_RegistriesFixed ==
  [][(/\ prepared
      /\ lastCall'.op \in {"RenderMeshes", "AddBox", "RemoveMesh", "GetMesh",
                           "SerializeSceneData", "DeserializeSceneData", "LoadModel"}) =>
       /\ m_objectMaterials' = m_objectMaterials
       /\ m_loadedTextures' = m_loadedTextures
       /\ m_textureIDs' = m_textureIDs]_vars

\* a saved scene with an imported instance has been loaded and drawn, with the
\* seven materials registered
C27_Witness ==
  /\ lastCall.op = "RenderMeshes"
  /\ files["scene.json"].open
  /\ \E i \in 1..Len(m_meshes) : m_meshes[i].drawFunction.fn = "glDrawElements"
  /\ Len(pushes) > 0
  /\ Len(m_objectMaterials) = 7

\* C29: when a list whose tags name no imported model has been saved and
\* loaded, saving and loading the loaded list once more yields that list again:
\* the same length, and every instance equal in all nine data fields,
\* isRotating included, and in its draw action, present or absent.
C29_SecondRoundTripIdentity ==
  (Loaded /\ \A i \in 1..Len(Saved) : ~NamesModel(Saved[i].tag)) =>
    LET again == DeserializeScene(m_meshes, File(TRUE, SerializeScene(m_meshes), 1), assets)
    IN /\ Len(again) = Len(m_meshes)
       /\ \A i \in 1..Len(m_meshes) :
            /\ SameFields(again[i], SerializeScene(m_meshes).items[i])
            /\ again[i].isRotating = m_meshes[i].isRotating
            /\ HasDraw(again[i]) <=> HasDraw(m_meshes[i])
            /\ again[i].drawFunction = m_meshes[i].drawFunction

\* a list of a turning box and a turning instance of unknown shape has been
\* saved and loaded: the box has lost its flag, the other has no draw action
C29_Witness ==
  /\ Loaded
  /\ Len(Saved) = 2
  /\ \A i \in 1..Len(Saved) : ~NamesModel(Saved[i].tag)
  /\ Len(m_meshes) = 2
  /\ HasDraw(m_meshes[1]) /\ Saved[1].isRotating /\ ~m_meshes[1].isRotating
  /\ ~HasDraw(m_meshes[2]) /\ m_meshes[2].isRotating

====
